---- MODULE Spec2Model ----
(***************************************************************************)
(* Operational model of smali/bridge/executor.py: the opcode registry      *)
(* (__executors__), the shared Executor objects with their frame/args      *)
(* fields, and the opcode handlers acting on execution frames.             *)
(***************************************************************************)
EXTENDS Integers, Sequences, FiniteSets, TLC

VARIABLES
    executors,   \* __executors__: mnemonic -> Executor object
    initPos,     \* number of decorated definitions executed by the import
    hframe,      \* Executor.frame of every Executor object
    hargs,       \* Executor.args of every Executor object
    frames,      \* the execution frames, by frame id
    arrays,      \* the heap of list objects, by reference
    objects,     \* the heap of SmaliObject instances, by reference
    procs,       \* dispatches in progress on concurrently running frames
    stack,       \* invoke calls in progress (nested interpretation)
    last         \* the outcome of the latest completed operation

vars == <<executors, initPos, hframe, hargs, frames, arrays, objects, procs, stack, last>>

(***************************************************************************)
(* The decorated definitions of the module, in source order.  fn is the    *)
(* function name cut at its underscores (every "_" is one character of the *)
(* name), parens tells whether the decorator is applied as                 *)
(* @OpcodeExecutor(...) or as a bare @OpcodeExecutor, map_to lists the     *)
(* values of the opcode constants given to map_to.                         *)
(***************************************************************************)
HandlerDefs ==
    << [fn |-> <<"nop">>, parens |-> TRUE,
        map_to |-> <<>>],
       [fn |-> <<"return", "_", "void">>, parens |-> TRUE,
        map_to |-> <<"return-void-barrier", "return-void-no-barrier">>],
       [fn |-> <<"return", "_", "object">>, parens |-> TRUE,
        map_to |-> <<"return", "return-wide">>],
       [fn |-> <<"goto">>, parens |-> TRUE,
        map_to |-> <<"goto/16", "goto/32">>],
       [fn |-> <<"invoke">>, parens |-> TRUE,
        map_to |-> <<"invoke-direct", "invoke-static", "invoke-virtual">>],
       [fn |-> <<"throw">>, parens |-> TRUE,
        map_to |-> <<>>],
       [fn |-> <<"int", "_", "to", "_", "long">>, parens |-> TRUE,
        map_to |-> <<>>],
       [fn |-> <<"int", "_", "to", "_", "int">>, parens |-> TRUE,
        map_to |-> <<"long-to-int">>],
       [fn |-> <<"int", "_", "to", "_", "char">>, parens |-> TRUE,
        map_to |-> <<"int-to-short">>],
       [fn |-> <<"int", "_", "to", "_", "byte">>, parens |-> TRUE,
        map_to |-> <<>>],
       [fn |-> <<"int", "_", "to", "_", "float">>, parens |-> TRUE,
        map_to |-> <<"int-to-double">>],
       [fn |-> <<"sput", "_", "object">>, parens |-> TRUE,
        map_to |-> <<"sput", "sput-boolean", "sput-short", "sput-char", "sput-byte", "sput-object-volatile", "sput-wide", "sput-wide-volatile">>],
       [fn |-> <<"sget", "_", "object">>, parens |-> TRUE,
        map_to |-> <<"sget", "sget-boolean", "sget-byte", "sget-object-volatile", "sget-volatile", "sget-wide", "sget-wide-volatile", "sget-char">>],
       [fn |-> <<"iget", "_", "object">>, parens |-> TRUE,
        map_to |-> <<"iget-boolean", "iget-byte", "iget-char", "iget-short", "iget-volatile", "iget-wide", "iget", "iget-object-volatile">>],
       [fn |-> <<"iput", "_", "object">>, parens |-> TRUE,
        map_to |-> <<"iput", "iput-boolean", "iput-byte", "iput-char", "iput-short", "iput-object-volatile", "iput-volatile", "iput-wide">>],
       [fn |-> <<"const">>, parens |-> TRUE,
        map_to |-> <<"const-string", "const-string/jumbo", "const/16", "const/4", "const-wide", "const-wide/high16", "const-wide/32">>],
       [fn |-> <<"const", "_", "class">>, parens |-> TRUE,
        map_to |-> <<"const-class">>],
       [fn |-> <<"move", "_", "result">>, parens |-> TRUE,
        map_to |-> <<"move-result-object">>],
       [fn |-> <<"move">>, parens |-> TRUE,
        map_to |-> <<>>],
       [fn |-> <<"move", "_", "exception">>, parens |-> TRUE,
        map_to |-> <<>>],
       [fn |-> <<"new", "_", "instance">>, parens |-> TRUE,
        map_to |-> <<>>],
       [fn |-> <<"new", "_", "array">>, parens |-> TRUE,
        map_to |-> <<>>],
       [fn |-> <<"packed", "_", "switch">>, parens |-> TRUE,
        map_to |-> <<>>],
       [fn |-> <<"sparse", "_", "switch">>, parens |-> FALSE,
        map_to |-> <<>>],
       [fn |-> <<"if", "_", "le">>, parens |-> TRUE,
        map_to |-> <<>>],
       [fn |-> <<"if", "_", "ge">>, parens |-> TRUE,
        map_to |-> <<>>],
       [fn |-> <<"if", "_", "gez">>, parens |-> TRUE,
        map_to |-> <<>>],
       [fn |-> <<"if", "_", "ltz">>, parens |-> TRUE,
        map_to |-> <<>>],
       [fn |-> <<"if", "_", "gt">>, parens |-> TRUE,
        map_to |-> <<>>],
       [fn |-> <<"if", "_", "lt">>, parens |-> TRUE,
        map_to |-> <<>>],
       [fn |-> <<"if", "_", "gtz">>, parens |-> TRUE,
        map_to |-> <<>>],
       [fn |-> <<"if", "_", "ne">>, parens |-> TRUE,
        map_to |-> <<>>],
       [fn |-> <<"if", "_", "lez">>, parens |-> TRUE,
        map_to |-> <<>>],
       [fn |-> <<"if", "_", "nez">>, parens |-> TRUE,
        map_to |-> <<>>],
       [fn |-> <<"if", "_", "eqz">>, parens |-> TRUE,
        map_to |-> <<>>],
       [fn |-> <<"array", "_", "length">>, parens |-> TRUE,
        map_to |-> <<>>],
       [fn |-> <<"fill", "_", "array", "_", "data">>, parens |-> TRUE,
        map_to |-> <<>>],
       [fn |-> <<"aget">>, parens |-> TRUE,
        map_to |-> <<"aget-boolean", "aget-byte", "aget-char", "aget-object", "aget-short", "aget-wide">>],
       [fn |-> <<"aput">>, parens |-> TRUE,
        map_to |-> <<"aput-boolean", "aput-byte", "aput-char", "aput-object", "aput-short", "aput-wide">>],
       [fn |-> <<"neg", "_", "int">>, parens |-> TRUE,
        map_to |-> <<"neg-double", "neg-float", "neg-long">>],
       [fn |-> <<"or", "_", "int", "_", "_", "2addr">>, parens |-> TRUE,
        map_to |-> <<"or-long/2addr">>],
       [fn |-> <<"and", "_", "int", "_", "_", "2addr">>, parens |-> TRUE,
        map_to |-> <<"and-long/2addr">>],
       [fn |-> <<"sub", "_", "int", "_", "_", "2addr">>, parens |-> TRUE,
        map_to |-> <<"sub-double/2addr", "sub-float/2addr", "sub-long/2addr">>],
       [fn |-> <<"xor", "_", "int", "_", "_", "2addr">>, parens |-> TRUE,
        map_to |-> <<"xor-long/2addr">>],
       [fn |-> <<"add", "_", "int", "_", "_", "2addr">>, parens |-> TRUE,
        map_to |-> <<"add-double/2addr", "add-float/2addr", "add-long/2addr">>],
       [fn |-> <<"div", "_", "int", "_", "_", "2addr">>, parens |-> TRUE,
        map_to |-> <<"div-long/2addr">>],
       [fn |-> <<"div", "_", "float", "_", "_", "2addr">>, parens |-> TRUE,
        map_to |-> <<"div-double/2addr">>],
       [fn |-> <<"shl", "_", "int", "_", "_", "2addr">>, parens |-> TRUE,
        map_to |-> <<"shl-long/2addr">>],
       [fn |-> <<"shr", "_", "int", "_", "_", "2addr">>, parens |-> TRUE,
        map_to |-> <<"shr-long/2addr", "ushr-int/2addr", "ushr-long/2addr">>],
       [fn |-> <<"rem", "_", "int", "_", "_", "2addr">>, parens |-> TRUE,
        map_to |-> <<"rem-double/2addr", "rem-float/2addr", "rem-long/2addr">>],
       [fn |-> <<"mul", "_", "int", "_", "_", "2addr">>, parens |-> TRUE,
        map_to |-> <<"mul-double/2addr", "mul-float/2addr", "mul-long/2addr">>],
       [fn |-> <<"div", "_", "int", "_", "_", "lit8">>, parens |-> TRUE,
        map_to |-> <<>>],
       [fn |-> <<"div", "_", "int", "_", "_", "lit16">>, parens |-> TRUE,
        map_to |-> <<>>],
       [fn |-> <<"add", "_", "int", "_", "_", "lit8">>, parens |-> TRUE,
        map_to |-> <<>>],
       [fn |-> <<"add", "_", "int", "_", "_", "lit16">>, parens |-> TRUE,
        map_to |-> <<>>],
       [fn |-> <<"sub", "_", "int", "_", "_", "lit8">>, parens |-> TRUE,
        map_to |-> <<>>],
       [fn |-> <<"sub", "_", "int", "_", "_", "lit16">>, parens |-> TRUE,
        map_to |-> <<>>],
       [fn |-> <<"mul", "_", "int", "_", "_", "lit8">>, parens |-> TRUE,
        map_to |-> <<>>],
       [fn |-> <<"mul", "_", "int", "_", "_", "lit16">>, parens |-> TRUE,
        map_to |-> <<>>],
       [fn |-> <<"rem", "_", "int", "_", "_", "lit8">>, parens |-> TRUE,
        map_to |-> <<>>],
       [fn |-> <<"rem", "_", "int", "_", "_", "lit16">>, parens |-> TRUE,
        map_to |-> <<>>],
       [fn |-> <<"and", "_", "int", "_", "_", "lit8">>, parens |-> TRUE,
        map_to |-> <<>>],
       [fn |-> <<"and", "_", "int", "_", "_", "lit16">>, parens |-> TRUE,
        map_to |-> <<>>],
       [fn |-> <<"or", "_", "int", "_", "_", "lit8">>, parens |-> TRUE,
        map_to |-> <<>>],
       [fn |-> <<"or", "_", "int", "_", "_", "lit16">>, parens |-> TRUE,
        map_to |-> <<>>],
       [fn |-> <<"xor", "_", "int", "_", "_", "lit8">>, parens |-> TRUE,
        map_to |-> <<>>],
       [fn |-> <<"xor", "_", "int", "_", "_", "lit16">>, parens |-> TRUE,
        map_to |-> <<>>],
       [fn |-> <<"shl", "_", "int", "_", "_", "lit8">>, parens |-> TRUE,
        map_to |-> <<>>],
       [fn |-> <<"shl", "_", "int", "_", "_", "lit16">>, parens |-> TRUE,
        map_to |-> <<>>],
       [fn |-> <<"shr", "_", "int", "_", "_", "lit8">>, parens |-> TRUE,
        map_to |-> <<>>],
       [fn |-> <<"shr", "_", "int", "_", "_", "lit16">>, parens |-> TRUE,
        map_to |-> <<>>],
       [fn |-> <<"rsub", "_", "int", "_", "_", "lit8">>, parens |-> TRUE,
        map_to |-> <<>>],
       [fn |-> <<"div", "_", "int">>, parens |-> TRUE,
        map_to |-> <<>>],
       [fn |-> <<"div", "_", "float">>, parens |-> TRUE,
        map_to |-> <<"div-double">>],
       [fn |-> <<"add", "_", "int">>, parens |-> TRUE,
        map_to |-> <<"add-double", "add-float", "add-long">>],
       [fn |-> <<"sub", "_", "int">>, parens |-> TRUE,
        map_to |-> <<"sub-double", "sub-float", "sub-long">>],
       [fn |-> <<"rem", "_", "int">>, parens |-> TRUE,
        map_to |-> <<"rem-double", "rem-float", "rem-long">>],
       [fn |-> <<"mul", "_", "int">>, parens |-> TRUE,
        map_to |-> <<"mul-double", "mul-float", "mul-long">>],
       [fn |-> <<"or", "_", "int">>, parens |-> TRUE,
        map_to |-> <<"or-long">>],
       [fn |-> <<"and", "_", "int">>, parens |-> TRUE,
        map_to |-> <<"and-long">>],
       [fn |-> <<"xor", "_", "int">>, parens |-> TRUE,
        map_to |-> <<"xor-long">>],
       [fn |-> <<"shl", "_", "int">>, parens |-> TRUE,
        map_to |-> <<"shl-long">>],
       [fn |-> <<"shr", "_", "int">>, parens |-> TRUE,
        map_to |-> <<"shr-long", "ushr-long", "ushr-int">>] >>


NumDefs == Len(HandlerDefs)

(***************************************************************************)
(* Executor.__init__: the opcode name is the function name with "__"       *)
(* replaced by "/" and then "_" replaced by "-".                           *)
(***************************************************************************)
RECURSIVE ReplaceDouble(_)
ReplaceDouble(s) ==
    IF Len(s) = 0 THEN <<>>
    ELSE IF Len(s) >= 2 /\ s[1] = "_" /\ s[2] = "_"
         THEN <<"/">> \o ReplaceDouble(SubSeq(s, 3, Len(s)))
         ELSE <<s[1]>> \o ReplaceDouble(Tail(s))

RECURSIVE ReplaceSingle(_)
ReplaceSingle(s) ==
    IF Len(s) = 0 THEN <<>>
    ELSE <<IF s[1] = "_" THEN "-" ELSE s[1]>> \o ReplaceSingle(Tail(s))

RECURSIVE Join(_)
Join(s) == IF Len(s) = 0 THEN "" ELSE s[1] \o Join(Tail(s))

OpcodeName(fn) == Join(ReplaceSingle(ReplaceDouble(fn)))

\* The Executor object built from a function: one object per definition.
HandlerOf(fn) == Join(fn)

Handlers == {HandlerOf(HandlerDefs[i].fn) : i \in 1..NumDefs}

Range(s) == {s[i] : i \in 1..Len(s)}

\* __executors__[name] = self
Bind(reg, name, self) ==
    [n \in DOMAIN reg \cup {name} |-> IF n = name THEN self ELSE reg[n]]

RECURSIVE BindAll(_, _, _)
BindAll(reg, names, self) ==
    IF Len(names) = 0 THEN reg
    ELSE BindAll(Bind(reg, names[1], self), Tail(names), self)

\* Executor.__init__(action, map_to=map_to): the registry after construction.
ExecutorInit(reg, fn, map_to) ==
    BindAll(Bind(reg, OpcodeName(fn), HandlerOf(fn)), map_to, HandlerOf(fn))

\* The decorator line of definition d.  @OpcodeExecutor(map_to=...) returns
\* wrapper, which is applied to the function and constructs the Executor.  A
\* bare @OpcodeExecutor calls OpcodeExecutor(func): the function is taken as
\* map_to and wrapper is returned unapplied, so no Executor is constructed.
OpcodeExecutor(reg, d) ==
    IF d.parens THEN ExecutorInit(reg, d.fn, d.map_to) ELSE reg

NoExecutors == [n \in {} |-> ""]

\* executor(name): the Executor bound to name, or KeyError.
executor(reg, name) ==
    IF name \notin DOMAIN reg
    THEN [fault |-> "KeyError", handler |-> ""]
    ELSE [fault |-> "", handler |-> reg[name]]

(***************************************************************************)
(* Values held by registers, slots and array elements.                     *)
(***************************************************************************)
IntV(i) == [t |-> "int", i |-> i]
Null == [t |-> "null"]
ArrV(ref) == [t |-> "arr", ref |-> ref]
ObjV(oid, cls) == [t |-> "obj", oid |-> oid, cls |-> cls]
ErrV(kind, payload) == [t |-> "err", kind |-> kind, payload |-> payload]

NoLabel == "<none>"

(***************************************************************************)
(* SmaliValue(text) on an integer literal: an optional "-", an optional    *)
(* "0x" and digits.  A text is the sequence of its characters.             *)
(***************************************************************************)
Digit(c) ==
    CASE c = "0" -> 0 [] c = "1" -> 1 [] c = "2" -> 2 [] c = "3" -> 3
      [] c = "4" -> 4 [] c = "5" -> 5 [] c = "6" -> 6 [] c = "7" -> 7
      [] c = "8" -> 8 [] c = "9" -> 9 [] c = "a" -> 10 [] c = "b" -> 11
      [] c = "c" -> 12 [] c = "d" -> 13 [] c = "e" -> 14 [] c = "f" -> 15

RECURSIVE Digits(_, _, _)
Digits(s, base, acc) ==
    IF Len(s) = 0 THEN acc ELSE Digits(Tail(s), base, acc * base + Digit(s[1]))

Unsigned(s) ==
    IF Len(s) >= 2 /\ s[1] = "0" /\ s[2] = "x"
    THEN Digits(SubSeq(s, 3, Len(s)), 16, 0)
    ELSE Digits(s, 10, 0)

SmaliValue(text) ==
    IF Len(text) >= 1 /\ text[1] = "-"
    THEN IntV(0 - Unsigned(Tail(text)))
    ELSE IntV(Unsigned(text))

(***************************************************************************)
(* Classes, methods and the native bridge.  The class table and the call   *)
(* of a method belong to the VM: a class has a name, a direct superclass   *)
(* and methods, and a method is the instructions that its frame runs.      *)
(***************************************************************************)
ClsV(name) == [t |-> "cls", name |-> name]
StrV(of) == [t |-> "str", of |-> of]
IdV(of) == [t |-> "id", of |-> of]

Ins(name, operands) == [name |-> name, operands |-> operands]

ReturnLiteral(text) == <<Ins("const", <<"v0", text>>), Ins("return", <<"v0">>)>>

ClassTable ==
    [c \in {"LA;", "LB;"} |->
        IF c = "LA;"
        THEN [super_cls |-> "Ljava/lang/Object;",
              methods |->
                 [s \in {"m()I", "n()I", "s()I"} |->
                     CASE s = "m()I" -> ReturnLiteral(<<"1">>)
                       [] s = "s()I" -> ReturnLiteral(<<"0", "x", "3">>)
                       [] s = "n()I" ->
                            <<Ins("invoke-virtual", <<"virtual", <<"p0">>, "LA;", "m()I">>),
                              Ins("move-result", <<"v0">>),
                              Ins("return", <<"v0">>)>>]]
        ELSE [super_cls |-> "LA;",
              methods |-> [s \in {"m()I"} |-> ReturnLiteral(<<"2">>)]]]

\* objects.py: the native bridge of Ljava/lang/Object; and Ljava/lang/Class;
ObjectBridge == {"toString()Ljava/lang/String;", "<init>()V", "hashCode()I",
                 "getClass()Ljava/lang/Class;"}

ClassBridge == {"getSimpleName()Ljava/lang/String;"}

Returned(value) == [fault |-> "", value |-> value]
Failed(kind) == [fault |-> kind, value |-> Null]

\* Object[method](x)
ObjectNative(method, x) ==
    CASE method = "toString()Ljava/lang/String;" -> Returned(StrV(x))
      [] method = "<init>()V" -> Returned(x)
      [] method = "hashCode()I" -> Returned(IdV(x))
      [] method = "getClass()Ljava/lang/Class;" ->
            IF x.t = "obj" THEN Returned(ClsV(x.cls)) ELSE Failed("AttributeError")

\* Class[method](x)
ClassNative(method, x) ==
    IF x.t = "cls" THEN Returned(StrV(x.name)) ELSE Failed("AttributeError")

\* frame.vm.get_class(descriptor)
get_class(descriptor) ==
    IF descriptor \in DOMAIN ClassTable
    THEN Returned(ClsV(descriptor))
    ELSE Failed("ClassNotFoundError")

\* vm_class.method(signature)
method_of(vm_class, signature) ==
    IF signature \in DOMAIN ClassTable[vm_class.name].methods
    THEN Returned([cls |-> vm_class.name, sig |-> signature])
    ELSE Failed("NoSuchMethodError")

CodeOf(target) == ClassTable[target.cls].methods[target.sig]

(***************************************************************************)
(* The machine a handler acts on: the Executor objects' fields, the frames *)
(* and the heap.  A handler yields the machine it leaves and the           *)
(* ExecutionError (or host exception) it raised, "" for none.              *)
(***************************************************************************)
Machine ==
    [hframe |-> hframe, hargs |-> hargs, frames |-> frames, arrays |-> arrays,
     objects |-> objects]

Done(m) == [m |-> m, fault |-> ""]
Raise(m, kind) == [m |-> m, fault |-> kind]

\* self.frame
Self(m, self) == m.frames[m.hframe[self]]

\* self.frame[register]
Get(m, self, register) == Self(m, self).regs[register]

\* self.frame[register] = value
Put(m, self, register, value) ==
    [m EXCEPT !.frames[m.hframe[self]].regs[register] = value]

nop(m, self) == Done(m)

return_void(m, self) ==
    Done([m EXCEPT !.frames[m.hframe[self]].return_value = Null,
                   !.frames[m.hframe[self]].finished = TRUE])

return_object(m, self, register) ==
    Done([m EXCEPT !.frames[m.hframe[self]].return_value = Get(m, self, register),
                   !.frames[m.hframe[self]].finished = TRUE])

goto(m, self, label) ==
    IF label \notin DOMAIN Self(m, self).labels
    THEN Raise(m, "NoSuchLabelError")
    ELSE Done([m EXCEPT !.frames[m.hframe[self]].label = label,
                        !.frames[m.hframe[self]].pos = Self(m, self).labels[label]])

throwRaises(m, self, register) == Raise(m, "RuntimeError")

throw(m, self, register) ==
    Done([m EXCEPT !.frames[m.hframe[self]].error =
                       ErrV("RuntimeError", Get(m, self, register))])

const(m, self, register, value) == Done(Put(m, self, register, SmaliValue(value)))

move_result(m, self, register) ==
    Done(Put(m, self, register, Self(m, self).method_return))

move(m, self, dest, src) == Done(Put(m, self, dest, Get(m, self, src)))

move_exception(m, self, dest) == Done(Put(m, self, dest, Self(m, self).error))

(***************************************************************************)
(* Switch handlers.  frame.switch_data[label] is (switch_value, cases) for *)
(* a packed table and an ordered key -> label mapping for a sparse one.    *)
(***************************************************************************)
Numbers(values) == \A i \in 1..Len(values) : values[i].t = "int"

Packed(low, cases) == [kind |-> "packed", low |-> low, cases |-> cases]
Sparse(branches) == [kind |-> "sparse", branches |-> branches]

packed_switchOffByOne(m, self, register, data) ==
    LET switch_value == Self(m, self).switch_data[data].low
        cases == Self(m, self).switch_data[data].cases
        value == Get(m, self, register)
        idx == value.i - SmaliValue(switch_value).i
    IN  IF ~Numbers(<<value>>) THEN Raise(m, "TypeError")
        ELSE IF idx < 0 \/ idx > Len(cases)
        THEN Done(m)
        ELSE IF idx = Len(cases) THEN Raise(m, "IndexError")
        ELSE goto(m, self, cases[idx + 1])

packed_switch(m, self, register, data) ==
    LET switch_value == Self(m, self).switch_data[data].low
        cases == Self(m, self).switch_data[data].cases
        value == Get(m, self, register)
        idx == value.i - SmaliValue(switch_value).i
    IN  IF ~Numbers(<<value>>) THEN Raise(m, "TypeError")
        ELSE IF idx < 0 \/ idx >= Len(cases)
        THEN Done(m)
        ELSE goto(m, self, cases[idx + 1])

\* The index of the first branch whose key equals value, 0 when there is none.
RECURSIVE FirstMatch(_, _, _)
FirstMatch(branches, value, i) ==
    IF i > Len(branches) THEN 0
    ELSE IF SmaliValue(branches[i].key) = value THEN i
    ELSE FirstMatch(branches, value, i + 1)

sparse_switch(m, self, register, label_name) ==
    LET branches == Self(m, self).switch_data[label_name].branches
        value == Get(m, self, register)
        hit == FirstMatch(branches, value, 1)
    IN  IF hit = 0 THEN Done(m) ELSE goto(m, self, branches[hit].label)

(***************************************************************************)
(* Conditional branches.  The host orders numbers only: an ordering        *)
(* comparison with another kind of value raises TypeError, while == and != *)
(* compare any two values.                                                 *)
(***************************************************************************)
if_le(m, self, left, right, label) ==
    IF ~Numbers(<<Get(m, self, left), Get(m, self, right)>>) THEN Raise(m, "TypeError")
    ELSE IF Get(m, self, left).i <= Get(m, self, right).i THEN goto(m, self, label)
    ELSE Done(m)

if_ge(m, self, left, right, label) ==
    IF ~Numbers(<<Get(m, self, left), Get(m, self, right)>>) THEN Raise(m, "TypeError")
    ELSE IF Get(m, self, left).i >= Get(m, self, right).i THEN goto(m, self, label)
    ELSE Done(m)

if_gez(m, self, left, label) ==
    IF ~Numbers(<<Get(m, self, left)>>) THEN Raise(m, "TypeError")
    ELSE IF Get(m, self, left).i >= 0 THEN goto(m, self, label)
    ELSE Done(m)

if_ltz(m, self, left, label) ==
    IF ~Numbers(<<Get(m, self, left)>>) THEN Raise(m, "TypeError")
    ELSE IF Get(m, self, left).i < 0 THEN goto(m, self, label)
    ELSE Done(m)

if_gt(m, self, left, right, label) ==
    IF ~Numbers(<<Get(m, self, left), Get(m, self, right)>>) THEN Raise(m, "TypeError")
    ELSE IF Get(m, self, left).i > Get(m, self, right).i THEN goto(m, self, label)
    ELSE Done(m)

if_lt(m, self, left, right, label) ==
    IF ~Numbers(<<Get(m, self, left), Get(m, self, right)>>) THEN Raise(m, "TypeError")
    ELSE IF Get(m, self, left).i < Get(m, self, right).i THEN goto(m, self, label)
    ELSE Done(m)

if_gtz(m, self, left, label) ==
    IF ~Numbers(<<Get(m, self, left)>>) THEN Raise(m, "TypeError")
    ELSE IF Get(m, self, left).i > 0 THEN goto(m, self, label)
    ELSE Done(m)

if_ne(m, self, left, right, label) ==
    IF Get(m, self, left) # Get(m, self, right) THEN goto(m, self, label) ELSE Done(m)

if_lez(m, self, left, label) ==
    IF ~Numbers(<<Get(m, self, left)>>) THEN Raise(m, "TypeError")
    ELSE IF Get(m, self, left).i <= 0 THEN goto(m, self, label)
    ELSE Done(m)

if_nez(m, self, left, label) ==
    IF Get(m, self, left) # IntV(0) THEN goto(m, self, label) ELSE Done(m)

if_eqz(m, self, left, label) ==
    IF Get(m, self, left) = IntV(0) THEN goto(m, self, label) ELSE Done(m)

(***************************************************************************)
(* Array handlers.  A register holding an array holds a reference to a     *)
(* list of the heap.  In aput the parameter array is the register's name:  *)
(* len(array) is the length of that name.                                  *)
(***************************************************************************)
aput(m, self, src, array, index) ==
    LET idx_value == Get(m, self, index).i
        array_data == Get(m, self, array).ref
    IN  IF idx_value < 0 \/ idx_value > Len(array)
        THEN Raise(m, "IndexOutOfBoundsError")
        ELSE IF Len(array) = idx_value
        THEN Done([m EXCEPT !.arrays[array_data] = Append(@, Get(m, self, src))])
        ELSE IF idx_value >= Len(m.arrays[array_data])
        THEN Raise(m, "IndexError")
        ELSE Done([m EXCEPT !.arrays[array_data][idx_value + 1] = Get(m, self, src)])

\* frame.array_data[label] is a list of the heap; the register is given that
\* list itself.
fill_array_data(m, self, dest, label) ==
    IF label \notin DOMAIN Self(m, self).array_data
    THEN Raise(m, "KeyError")
    ELSE Done(Put(m, self, dest, ArrV(Self(m, self).array_data[label])))

\* aget has the same len(array): the index is checked against the length of
\* the register's name, then the list is subscripted.
aget(m, self, dest, array, index) ==
    LET idx_value == Get(m, self, index).i
        array_data == Get(m, self, array).ref
    IN  IF idx_value < 0 \/ idx_value >= Len(array)
        THEN Raise(m, "IndexOutOfBoundsError")
        ELSE IF idx_value >= Len(m.arrays[array_data])
        THEN Raise(m, "IndexError")
        ELSE Done(Put(m, self, dest, m.arrays[array_data][idx_value + 1]))

(***************************************************************************)
(* Instances.  A SmaliObject is a heap object with a class and named field *)
(* cells; a register holds a reference to it.  Its constructor and init()  *)
(* belong to the VM: a new object's fields hold the default value.         *)
(***************************************************************************)
FloatV(i) == [t |-> "float", i |-> i]
BoolV(b) == [t |-> "bool", b |-> b]

FieldNames == {"x", "y"}

\* SmaliObject(smali_class) followed by instance.init()
SmaliObject(smali_class) ==
    [cls |-> smali_class.name, fields |-> [f \in FieldNames |-> Null]]

\* descriptor in "ISBJ" and descriptor in "FD": the substring test of str
InISBJ(descriptor) ==
    descriptor \in {"", "I", "S", "B", "J", "IS", "SB", "BJ", "ISB", "SBJ", "ISBJ"}

InFD(descriptor) == descriptor \in {"", "F", "D", "FD"}

\* cls in "BSIJ": the substring test of str
InBSIJ(cls) ==
    cls \in {"", "B", "S", "I", "J", "BS", "SI", "IJ", "BSI", "SIJ", "BSIJ"}

\* Type(descriptor) of the literal-parsing collaborator: a descriptor is the
\* sequence of its tokens, and the class name of an array descriptor is its
\* element class, the descriptor without its leading "[".
Type(descriptor) ==
    [class_name |-> IF Len(descriptor) > 0 /\ descriptor[1] = "["
                    THEN Join(Tail(descriptor))
                    ELSE Join(descriptor)]

\* [value] * count: count copies, none for a negative count
Times(value, count) == [i \in 1..count |-> value]

new_arrayUntyped(m, self, dest, count_register, descriptor) ==
    LET count == Get(m, self, count_register)
    IN  IF count.t # "int" THEN Raise(m, "TypeError")
        ELSE Done(Put([m EXCEPT !.arrays = Append(@, Times(Null, count.i))],
                      self, dest, ArrV(Len(m.arrays) + 1)))

\* The list is built before dest is written, and it is a new list of the
\* heap in every branch.
new_array(m, self, dest, count_register, descriptor) ==
    LET cls == Type(descriptor).class_name
        count == Get(m, self, count_register)
    IN  IF count.t # "int" THEN Raise(m, "TypeError")
        ELSE LET values == IF InBSIJ(cls) THEN Times(IntV(0), count.i)
                           ELSE IF InFD(cls) THEN Times(FloatV(0), count.i)
                           ELSE Times(Null, count.i)
             IN  Done(Put([m EXCEPT !.arrays = Append(@, values)],
                          self, dest, ArrV(Len(m.arrays) + 1)))

new_instanceShared(m, self, register, descriptor) ==
    IF InISBJ(descriptor) THEN Done(Put(m, self, register, IntV(0)))
    ELSE LET smali_class == get_class(descriptor)
         IN  IF smali_class.fault # "" THEN Raise(m, smali_class.fault)
             ELSE IF Len(m.objects) > 0
             THEN Done(Put(m, self, register, ObjV(1, m.objects[1].cls)))
             ELSE Done(Put([m EXCEPT !.objects = Append(@, SmaliObject(smali_class.value))],
                           self, register, ObjV(1, descriptor)))

new_instance(m, self, register, descriptor) ==
    IF InISBJ(descriptor) THEN Done(Put(m, self, register, IntV(0)))
    ELSE IF InFD(descriptor) THEN Done(Put(m, self, register, FloatV(0)))
    ELSE IF descriptor \in {"Ljava/lang/String;", "C", "Ljava/lang/Character;"}
    THEN Done(Put(m, self, register, StrV("")))
    ELSE IF descriptor \in {"Ljava/lang/Integer;", "Ljava/lang/Byte;",
                            "Ljava/lang/Long", "Ljava/lang/Short;"}
    THEN Done(Put(m, self, register, IntV(0)))
    ELSE IF descriptor \in {"Ljava/lang/Boolean", "Z"}
    THEN Done(Put(m, self, register, BoolV(FALSE)))
    ELSE LET smali_class == get_class(descriptor)
         IN  IF smali_class.fault # "" THEN Raise(m, smali_class.fault)
             ELSE LET instance == Len(m.objects) + 1
                      m1 == [m EXCEPT !.objects = Append(@, SmaliObject(smali_class.value))]
                  IN  Done(Put(m1, self, register, ObjV(instance, descriptor)))

\* Executor.cast(value, SmaliObject)
cast(value) == IF value.t = "obj" THEN "" ELSE "ClassCastError"

\* text.split(sep) on a text given as its tokens: the pieces between the
\* separators.
RECURSIVE Split(_, _, _)
Split(tokens, sep, piece) ==
    IF Len(tokens) = 0 THEN <<piece>>
    ELSE IF tokens[1] = sep THEN <<piece>> \o Split(Tail(tokens), sep, <<>>)
    ELSE Split(Tail(tokens), sep, Append(piece, tokens[1]))

\* _, field = info.split('->'); field_name, _ = field.split(':')
FieldName(info) ==
    LET parts == Split(info, "->", <<>>)
    IN  IF Len(parts) # 2 THEN Failed("ValueError")
        ELSE LET field == Split(parts[2], ":", <<>>)
             IN  IF Len(field) # 2 THEN Failed("ValueError")
                 ELSE Returned(Join(field[1]))

iget_objectUnchecked(m, self, dest, src, info) ==
    LET smali_object == Get(m, self, src)
        field_name == FieldName(info)
    IN  IF field_name.fault # "" THEN Raise(m, field_name.fault)
        ELSE IF smali_object.t # "obj" THEN Done(Put(m, self, dest, Null))
        ELSE Done(Put(m, self, dest, m.objects[smali_object.oid].fields[field_name.value]))

iget_object(m, self, dest, src, info) ==
    LET smali_object == Get(m, self, src)
        field_name == FieldName(info)
    IN  IF cast(smali_object) # "" THEN Raise(m, cast(smali_object))
        ELSE IF field_name.fault # "" THEN Raise(m, field_name.fault)
        ELSE Done(Put(m, self, dest, m.objects[smali_object.oid].fields[field_name.value]))

iput_object(m, self, src, obj, info) ==
    LET smali_object == Get(m, self, obj)
        field_name == FieldName(info)
    IN  IF cast(smali_object) # "" THEN Raise(m, cast(smali_object))
        ELSE IF field_name.fault # "" THEN Raise(m, field_name.fault)
        ELSE Done([m EXCEPT !.objects[smali_object.oid].fields[field_name.value] =
                                Get(m, self, src)])

(***************************************************************************)
(* Arithmetic handlers.  Registers hold host integers of unbounded width:  *)
(* the bitwise operators act on the two's complement bit pattern, //       *)
(* floors and % takes the sign of the divisor.                             *)
(***************************************************************************)
RECURSIVE BitAnd(_, _)
BitAnd(a, b) ==
    IF a = 0 \/ b = 0 THEN 0
    ELSE IF a = -1 THEN b
    ELSE IF b = -1 THEN a
    ELSE (a % 2) * (b % 2) + 2 * BitAnd(a \div 2, b \div 2)

RECURSIVE BitOr(_, _)
BitOr(a, b) ==
    IF a = 0 THEN b
    ELSE IF b = 0 THEN a
    ELSE IF a = -1 \/ b = -1 THEN -1
    ELSE (IF a % 2 = 1 \/ b % 2 = 1 THEN 1 ELSE 0) + 2 * BitOr(a \div 2, b \div 2)

RECURSIVE BitXor(_, _)
BitXor(a, b) ==
    IF a = 0 THEN b
    ELSE IF b = 0 THEN a
    ELSE IF a = -1 THEN (0 - b) - 1
    ELSE IF b = -1 THEN (0 - a) - 1
    ELSE ((a + b) % 2) + 2 * BitXor(a \div 2, b \div 2)

RECURSIVE ShiftLeft(_, _)
ShiftLeft(a, n) == IF n = 0 \/ a = 0 THEN a ELSE ShiftLeft(2 * a, n - 1)

RECURSIVE ShiftRight(_, _)
ShiftRight(a, n) ==
    IF n = 0 \/ a = 0 \/ a = -1 THEN a ELSE ShiftRight(a \div 2, n - 1)

\* x op y on two register values, as the host evaluates it
HostOp(op, x, y) ==
    IF ~Numbers(<<x, y>>) THEN Failed("TypeError")
    ELSE CASE op = "+" -> Returned(IntV(x.i + y.i))
           [] op = "-" -> Returned(IntV(x.i - y.i))
           [] op = "*" -> Returned(IntV(x.i * y.i))
           [] op = "//" -> IF y.i = 0 THEN Failed("ZeroDivisionError")
                           ELSE Returned(IntV(x.i \div y.i))
           [] op = "%" -> IF y.i = 0 THEN Failed("ZeroDivisionError")
                          ELSE Returned(IntV(x.i - y.i * (x.i \div y.i)))
           [] op = "&" -> Returned(IntV(BitAnd(x.i, y.i)))
           [] op = "|" -> Returned(IntV(BitOr(x.i, y.i)))
           [] op = "^" -> Returned(IntV(BitXor(x.i, y.i)))
           [] op = "<<" -> IF y.i < 0 THEN Failed("ValueError")
                           ELSE Returned(IntV(ShiftLeft(x.i, y.i)))
           [] op = ">>" -> IF y.i < 0 THEN Failed("ValueError")
                           ELSE Returned(IntV(ShiftRight(x.i, y.i)))

\* self.frame[dest] = <result>, unless evaluating the result raised
Store(m, self, dest, result) ==
    IF result.fault # "" THEN Raise(m, result.fault)
    ELSE Done(Put(m, self, dest, result.value))

\* SmaliValue(right) & 0xFF and SmaliValue(right) & 0xFFFF
Lit8(right) == HostOp("&", SmaliValue(right), IntV(255)).value
Lit16(right) == HostOp("&", SmaliValue(right), IntV(65535)).value

div_int__2addr(m, self, dest, src) ==
    Store(m, self, dest, HostOp("//", Get(m, self, dest), Get(m, self, src)))

div_int__lit8(m, self, dest, left, right) ==
    Store(m, self, dest, HostOp("//", Get(m, self, left), Lit8(right)))

div_int__lit16(m, self, dest, left, right) ==
    Store(m, self, dest, HostOp("//", Get(m, self, left), Lit16(right)))

add_int__lit8(m, self, dest, left, right) ==
    Store(m, self, dest, HostOp("+", Get(m, self, left), Lit8(right)))

add_int__lit16(m, self, dest, left, right) ==
    Store(m, self, dest, HostOp("+", Get(m, self, left), Lit16(right)))

sub_int__lit8(m, self, dest, left, right) ==
    Store(m, self, dest, HostOp("-", Get(m, self, left), Lit8(right)))

sub_int__lit16(m, self, dest, left, right) ==
    Store(m, self, dest, HostOp("-", Get(m, self, left), Lit16(right)))

mul_int__lit8(m, self, dest, left, right) ==
    Store(m, self, dest, HostOp("*", Get(m, self, left), Lit8(right)))

mul_int__lit16(m, self, dest, left, right) ==
    Store(m, self, dest, HostOp("*", Get(m, self, left), Lit16(right)))

rem_int__lit8(m, self, dest, left, right) ==
    Store(m, self, dest, HostOp("%", Get(m, self, left), Lit8(right)))

rem_int__lit16(m, self, dest, left, right) ==
    Store(m, self, dest, HostOp("%", Get(m, self, left), Lit16(right)))

and_int__lit8Unmasked(m, self, dest, left, right) ==
    Store(m, self, dest, HostOp("&", Get(m, self, left), SmaliValue(right)))

and_int__lit8(m, self, dest, left, right) ==
    Store(m, self, dest, HostOp("&", Get(m, self, left), Lit8(right)))

and_int__lit16(m, self, dest, left, right) ==
    Store(m, self, dest, HostOp("&", Get(m, self, left), Lit16(right)))

or_int__lit8(m, self, dest, left, right) ==
    Store(m, self, dest, HostOp("|", Get(m, self, left), Lit8(right)))

or_int__lit16(m, self, dest, left, right) ==
    Store(m, self, dest, HostOp("|", Get(m, self, left), Lit16(right)))

xor_int__lit8(m, self, dest, left, right) ==
    Store(m, self, dest, HostOp("^", Get(m, self, left), Lit8(right)))

xor_int__lit16(m, self, dest, left, right) ==
    Store(m, self, dest, HostOp("^", Get(m, self, left), Lit16(right)))

shl_int__lit8(m, self, dest, left, right) ==
    Store(m, self, dest, HostOp("<<", Get(m, self, left), Lit8(right)))

shl_int__lit16(m, self, dest, left, right) ==
    Store(m, self, dest, HostOp("<<", Get(m, self, left), Lit16(right)))

shr_int__lit8(m, self, dest, left, right) ==
    Store(m, self, dest, HostOp(">>", Get(m, self, left), Lit8(right)))

shr_int__lit16(m, self, dest, left, right) ==
    Store(m, self, dest, HostOp(">>", Get(m, self, left), Lit16(right)))

rsub_int__lit8SameOrder(m, self, dest, left, right) ==
    Store(m, self, dest, HostOp("-", Get(m, self, left), Lit8(right)))

rsub_int__lit8(m, self, dest, left, right) ==
    Store(m, self, dest, HostOp("-", Lit8(right), Get(m, self, left)))

\* a quotient rounded toward zero
Truncated(x, y) ==
    IF (x.i < 0) = (y.i < 0) \/ y.i * (x.i \div y.i) = x.i
    THEN Returned(IntV(x.i \div y.i))
    ELSE Returned(IntV((x.i \div y.i) + 1))

div_intTruncates(m, self, dest, left, right) ==
    Store(m, self, dest,
          IF Numbers(<<Get(m, self, left), Get(m, self, right)>>) /\ Get(m, self, right).i # 0
          THEN Truncated(Get(m, self, left), Get(m, self, right))
          ELSE HostOp("//", Get(m, self, left), Get(m, self, right)))

div_int(m, self, dest, left, right) ==
    Store(m, self, dest, HostOp("//", Get(m, self, left), Get(m, self, right)))

add_intInPlace(m, self, dest, left, right) ==
    Store(m, self, left, HostOp("+", Get(m, self, left), Get(m, self, right)))

add_int(m, self, dest, left, right) ==
    Store(m, self, dest, HostOp("+", Get(m, self, left), Get(m, self, right)))

(***************************************************************************)
(* Executor.__call__ and the dispatch of one instruction.                  *)
(***************************************************************************)
\* self.action(self, *self.args)
Action(self, m, a) ==
    CASE self = "nop" -> nop(m, self)
      [] self = "return_void" -> return_void(m, self)
      [] self = "return_object" -> return_object(m, self, a[1])
      [] self = "goto" -> goto(m, self, a[1])
      [] self = "throw" -> throw(m, self, a[1])
      [] self = "const" -> const(m, self, a[1], a[2])
      [] self = "move_result" -> move_result(m, self, a[1])
      [] self = "move" -> move(m, self, a[1], a[2])
      [] self = "move_exception" -> move_exception(m, self, a[1])
      [] self = "packed_switch" -> packed_switch(m, self, a[1], a[2])
      [] self = "if_le" -> if_le(m, self, a[1], a[2], a[3])
      [] self = "if_ge" -> if_ge(m, self, a[1], a[2], a[3])
      [] self = "if_gez" -> if_gez(m, self, a[1], a[2])
      [] self = "if_ltz" -> if_ltz(m, self, a[1], a[2])
      [] self = "if_gt" -> if_gt(m, self, a[1], a[2], a[3])
      [] self = "if_lt" -> if_lt(m, self, a[1], a[2], a[3])
      [] self = "if_gtz" -> if_gtz(m, self, a[1], a[2])
      [] self = "if_ne" -> if_ne(m, self, a[1], a[2], a[3])
      [] self = "if_lez" -> if_lez(m, self, a[1], a[2])
      [] self = "if_nez" -> if_nez(m, self, a[1], a[2])
      [] self = "if_eqz" -> if_eqz(m, self, a[1], a[2])
      [] self = "aput" -> aput(m, self, a[1], a[2], a[3])
      [] self = "aget" -> aget(m, self, a[1], a[2], a[3])
      [] self = "fill_array_data" -> fill_array_data(m, self, a[1], a[2])
      [] self = "div_int__lit8" -> div_int__lit8(m, self, a[1], a[2], a[3])
      [] self = "div_int__lit16" -> div_int__lit16(m, self, a[1], a[2], a[3])
      [] self = "add_int__lit8" -> add_int__lit8(m, self, a[1], a[2], a[3])
      [] self = "add_int__lit16" -> add_int__lit16(m, self, a[1], a[2], a[3])
      [] self = "sub_int__lit8" -> sub_int__lit8(m, self, a[1], a[2], a[3])
      [] self = "sub_int__lit16" -> sub_int__lit16(m, self, a[1], a[2], a[3])
      [] self = "mul_int__lit8" -> mul_int__lit8(m, self, a[1], a[2], a[3])
      [] self = "mul_int__lit16" -> mul_int__lit16(m, self, a[1], a[2], a[3])
      [] self = "rem_int__lit8" -> rem_int__lit8(m, self, a[1], a[2], a[3])
      [] self = "rem_int__lit16" -> rem_int__lit16(m, self, a[1], a[2], a[3])
      [] self = "and_int__lit8" -> and_int__lit8(m, self, a[1], a[2], a[3])
      [] self = "and_int__lit16" -> and_int__lit16(m, self, a[1], a[2], a[3])
      [] self = "or_int__lit8" -> or_int__lit8(m, self, a[1], a[2], a[3])
      [] self = "or_int__lit16" -> or_int__lit16(m, self, a[1], a[2], a[3])
      [] self = "xor_int__lit8" -> xor_int__lit8(m, self, a[1], a[2], a[3])
      [] self = "xor_int__lit16" -> xor_int__lit16(m, self, a[1], a[2], a[3])
      [] self = "shl_int__lit8" -> shl_int__lit8(m, self, a[1], a[2], a[3])
      [] self = "shl_int__lit16" -> shl_int__lit16(m, self, a[1], a[2], a[3])
      [] self = "shr_int__lit8" -> shr_int__lit8(m, self, a[1], a[2], a[3])
      [] self = "shr_int__lit16" -> shr_int__lit16(m, self, a[1], a[2], a[3])
      [] self = "rsub_int__lit8" -> rsub_int__lit8(m, self, a[1], a[2], a[3])
      [] self = "div_int" -> div_int(m, self, a[1], a[2], a[3])
      [] self = "add_int" -> add_int(m, self, a[1], a[2], a[3])
      [] self = "div_int__2addr" -> div_int__2addr(m, self, a[1], a[2])
      [] self = "new_instance" -> new_instance(m, self, a[1], a[2])
      [] self = "new_array" -> new_array(m, self, a[1], a[2], a[3])
      [] self = "iget_object" -> iget_object(m, self, a[1], a[2], a[3])
      [] self = "iput_object" -> iput_object(m, self, a[1], a[2], a[3])

\* Executor.__call__(frame): the frame is stored in the Executor, then the
\* action runs with the stored args.
Call(m, self, frame) ==
    LET m1 == [m EXCEPT !.hframe[self] = frame]
    IN  Action(self, m1, m1.hargs[self])

\* The caller's side of one instruction: look the mnemonic up, hand the
\* operands to the Executor and call it with the frame.
Dispatched(m, frame, name, operands) ==
    LET found == executor(executors, name)
    IN  IF found.fault # ""
        THEN Raise(m, found.fault)
        ELSE Call([m EXCEPT !.hargs[found.handler] = operands], found.handler, frame)

\* The record of a completed dispatch: the instruction, the frame it was
\* dispatched on, what was raised, the frames and heap before it, for an
\* invoke whether the call collaborator was called and what it returned, and
\* the dispatch before it in brief.
Idle ==
    [op |-> "none", args |-> <<>>, frame |-> 0, fault |-> "", n |-> 0,
     called |-> FALSE, result |-> Null]

Brief(l) ==
    [op |-> l.op, args |-> l.args, frame |-> l.frame, fault |-> l.fault,
     called |-> l.called, result |-> l.result]

\* One instruction dispatched on frame.  advance is what the caller's loop
\* adds to the frame's cursor afterwards, count whether the dispatch counts
\* against the bound of the run.
DispatchAt(frame, name, operands, advance, count) ==
    /\ initPos = NumDefs
    /\ LET out == Dispatched(Machine, frame, name, operands)
       IN  /\ hframe' = out.m.hframe
           /\ hargs' = out.m.hargs
           /\ frames' = [out.m.frames EXCEPT ![frame].pos = @ + advance]
           /\ arrays' = out.m.arrays
           /\ objects' = out.m.objects
           /\ last' = [op |-> name, args |-> operands, frame |-> frame,
                       fault |-> out.fault, pre |-> frames, prearrays |-> arrays,
                       preobjects |-> objects,
                       n |-> last.n + count, called |-> FALSE, result |-> Null,
                       prior |-> Brief(last)]
    /\ UNCHANGED <<executors, initPos, procs, stack>>

Dispatch(frame, name, operands) == DispatchAt(frame, name, operands, 0, 1)

(***************************************************************************)
(* Import of the module: the decorated definitions run in source order.    *)
(***************************************************************************)
\* The Executor objects constructed by the first k definitions.
Constructed(k) == {HandlerOf(HandlerDefs[i].fn) : i \in {j \in 1..k : HandlerDefs[j].parens}}

Define ==
    /\ initPos < NumDefs
    /\ initPos' = initPos + 1
    /\ executors' = OpcodeExecutor(executors, HandlerDefs[initPos + 1])
    /\ hframe' = [h \in Constructed(initPos + 1) |-> 0]
    /\ hargs' = [h \in Constructed(initPos + 1) |-> <<>>]
    /\ UNCHANGED <<frames, arrays, objects, procs, stack, last>>

\* Every mnemonic the import binds, and some it does not.
Canonical == {OpcodeName(HandlerDefs[i].fn) : i \in 1..NumDefs}
Aliases == UNION {Range(HandlerDefs[i].map_to) : i \in 1..NumDefs}
Unbound == {"if-eq", "move-result-wide", "sparse_switch", "noop"}

Lookup(name) ==
    /\ initPos = NumDefs
    /\ last' = [op |-> "executor", name |-> name,
                fault |-> executor(executors, name).fault,
                handler |-> executor(executors, name).handler, n |-> 0]
    /\ UNCHANGED <<executors, initPos, hframe, hargs, frames, arrays, objects, procs, stack>>

NoFrames == [f \in {} |-> Null]
NoArrays == <<>>
NoObjects == <<>>

InitRegistry ==
    /\ executors = NoExecutors
    /\ initPos = 0
    /\ hframe = [h \in {} |-> 0]
    /\ hargs = [h \in {} |-> <<>>]
    /\ frames = NoFrames
    /\ arrays = NoArrays
    /\ objects = NoObjects
    /\ procs = <<>>
    /\ stack = <<>>
    /\ last = Idle

NextRegistry ==
    \/ Define
    \/ \E name \in Canonical \cup Aliases \cup Unbound : Lookup(name)

SpecRegistry == InitRegistry /\ [][NextRegistry]_vars

\* C1: once the module is imported, executor(name) returns the handler of
\* every decorated definition for its canonical mnemonic and for each alias
\* of its map_to, and the lookup of a name that no definition registers
\* fails without a handler.
C1_EveryHandlerRegistered ==
    initPos = NumDefs =>
        /\ \A i \in 1..NumDefs :
              LET d == HandlerDefs[i]
              IN  \A name \in {OpcodeName(d.fn)} \cup Range(d.map_to) :
                      /\ executor(executors, name).fault = ""
                      /\ executor(executors, name).handler = HandlerOf(d.fn)
        /\ (last.op = "executor" /\ last.name \notin Canonical \cup Aliases)
              => (last.fault = "KeyError" /\ last.handler = "")

(***************************************************************************)
(* Frames.  A frame is built by the interpreter for one method execution:  *)
(* registers, cursor, tables and slots.                                    *)
(***************************************************************************)
NewFrame(regs, labels, switch_data, array_data) ==
    [regs |-> regs, pos |-> 0, label |-> NoLabel,
     labels |-> labels, switch_data |-> switch_data, array_data |-> array_data,
     return_value |-> Null, method_return |-> Null, error |-> Null,
     finished |-> FALSE]

MaxInt == 2
ControlSteps == 1
ThrowSteps == 2
ArraySteps == 1
MaxLen == 2

Ints == -1..MaxInt
IntVals == {IntV(i) : i \in Ints}

NoTable == [l \in {} |-> Null]

(***************************************************************************)
(* Control flow on one frame: labels L1 and L2 exist, L3 does not.         *)
(***************************************************************************)
ControlLabels == [l \in {"L1", "L2"} |-> IF l = "L1" THEN 1 ELSE 4]

Targets == {"L1", "L2", "L3"}

ControlSwitchData ==
    [d \in {"P0", "P1", "S1"} |->
        CASE d = "P0" -> Packed(<<"0">>, <<"L1", "L2">>)
          [] d = "P1" -> Packed(<<"0", "x", "1">>, <<"L3">>)
          [] d = "S1" -> Sparse(<<[key |-> <<"-", "1">>, label |-> "L3"],
                                  [key |-> <<"0", "x", "1">>, label |-> "L2"],
                                  [key |-> <<"1">>, label |-> "L1"]>>)]

\* The frame once its cursor has been moved to label at (NoLabel: not yet).
ControlFrame(v0, v1, at) ==
    LET f == NewFrame([r \in {"v0", "v1"} |-> IF r = "v0" THEN v0 ELSE v1],
                      ControlLabels, ControlSwitchData, NoTable)
    IN  IF at = NoLabel THEN f
        ELSE [f EXCEPT !.label = at, !.pos = ControlLabels[at]]

EnterControl ==
    /\ initPos = NumDefs
    /\ frames = NoFrames
    /\ \E v0 \in IntVals, v1 \in IntVals, at \in {NoLabel} \cup DOMAIN ControlLabels :
           frames' = [f \in {1} |-> ControlFrame(v0, v1, at)]
    /\ UNCHANGED <<executors, initPos, hframe, hargs, arrays, objects, procs, stack, last>>

Ready(steps) == frames # NoFrames /\ last.n < steps

IfTwo == {"if-lt", "if-le", "if-gt", "if-ge", "if-eq", "if-ne"}
IfZero == {"if-ltz", "if-lez", "if-gtz", "if-gez", "if-eqz", "if-nez"}

DispatchGoto ==
    /\ Ready(ControlSteps)
    /\ \E name \in {"goto", "goto/16", "goto/32"}, label \in Targets :
           Dispatch(1, name, <<label>>)

DispatchIfTwo ==
    /\ Ready(ControlSteps)
    /\ \E name \in IfTwo, label \in Targets : Dispatch(1, name, <<"v0", "v1", label>>)

DispatchIfZero ==
    /\ Ready(ControlSteps)
    /\ \E name \in IfZero, label \in Targets : Dispatch(1, name, <<"v0", label>>)

DispatchPackedSwitch ==
    /\ Ready(ControlSteps)
    /\ \E data \in {"P0", "P1"} : Dispatch(1, "packed-switch", <<"v0", data>>)

DispatchSparseSwitch ==
    /\ Ready(ControlSteps)
    /\ Dispatch(1, "sparse-switch", <<"v0", "S1">>)

NextControl ==
    \/ Define
    \/ EnterControl
    \/ DispatchGoto
    \/ DispatchIfTwo
    \/ DispatchIfZero
    \/ DispatchPackedSwitch
    \/ DispatchSparseSwitch

SpecControl == InitRegistry /\ [][NextControl]_vars

(***************************************************************************)
(* The latest dispatch, as the claims read it.                             *)
(***************************************************************************)
Dispatching(names) == last.op \in names
Pre == last.pre[last.frame]
Post == frames[last.frame]

\* The effect of a jump to label: the cursor moves to a label of the table,
\* and a label outside the table faults and moves nothing.
Jumps(label) ==
    IF label \in DOMAIN Pre.labels
    THEN /\ last.fault = ""
         /\ Post = [Pre EXCEPT !.label = label, !.pos = Pre.labels[label]]
    ELSE /\ last.fault = "NoSuchLabelError"
         /\ Post = Pre

FallsThrough == last.fault = "" /\ Post = Pre

\* The predicate of a conditional branch over the values it compares.
Holds(name, a, b) ==
    CASE name \in {"if-lt", "if-ltz"} -> a < b
      [] name \in {"if-le", "if-lez"} -> a <= b
      [] name \in {"if-gt", "if-gtz"} -> a > b
      [] name \in {"if-ge", "if-gez"} -> a >= b
      [] name \in {"if-eq", "if-eqz"} -> a = b
      [] name \in {"if-ne", "if-nez"} -> a # b

BranchTaken ==
    IF last.op \in IfTwo
    THEN Holds(last.op, Pre.regs[last.args[1]].i, Pre.regs[last.args[2]].i)
    ELSE Holds(last.op, Pre.regs[last.args[1]].i, 0)

BranchLabel == last.args[Len(last.args)]

PackedIndex ==
    Pre.regs[last.args[1]].i - SmaliValue(Pre.switch_data[last.args[2]].low).i

PackedCases == Pre.switch_data[last.args[2]].cases

SparseBranches == Pre.switch_data[last.args[2]].branches

SparseHits ==
    {i \in 1..Len(SparseBranches) :
        SmaliValue(SparseBranches[i].key) = Pre.regs[last.args[1]]}

FirstHit == CHOOSE i \in SparseHits : \A j \in SparseHits : i <= j

\* The label a control-flow dispatch has to jump to, if it has to jump.
MustJump ==
    \/ Dispatching({"goto", "goto/16", "goto/32"})
    \/ Dispatching(IfTwo \cup IfZero) /\ BranchTaken
    \/ Dispatching({"packed-switch"}) /\ PackedIndex >= 0 /\ PackedIndex < Len(PackedCases)
    \/ Dispatching({"sparse-switch"}) /\ SparseHits # {}

JumpLabel ==
    CASE last.op \in {"goto", "goto/16", "goto/32"} -> last.args[1]
      [] last.op \in IfTwo \cup IfZero -> BranchLabel
      [] last.op = "packed-switch" -> PackedCases[PackedIndex + 1]
      [] last.op = "sparse-switch" -> SparseBranches[FirstHit].label

\* C3: every control-flow opcode that performs a jump (goto and its aliases,
\* a conditional branch whose predicate is true, packed-switch with an index
\* in range, sparse-switch with a matching key) fails with NoSuchLabel and
\* leaves label and pos alone when the label is not in frame.labels, and
\* otherwise sets frame.label to the label and frame.pos to its position.
C3_JumpFaultsOrMoves ==
    MustJump =>
        IF JumpLabel \in DOMAIN Pre.labels
        THEN Post.label = JumpLabel /\ Post.pos = Pre.labels[JumpLabel]
        ELSE /\ last.fault = "NoSuchLabelError"
             /\ Post.label = Pre.label
             /\ Post.pos = Pre.pos

\* C7: packed-switch with index = frame[register] - low_value outside
\* [0, len(branches)) changes nothing and raises nothing, whatever the
\* table's labels; with the index in range the frame ends as after goto on
\* branches[index], the NoSuchLabel fault included.
C7_PackedSwitch ==
    Dispatching({"packed-switch"}) =>
        IF PackedIndex < 0 \/ PackedIndex >= Len(PackedCases)
        THEN FallsThrough
        ELSE Jumps(PackedCases[PackedIndex + 1])

C7_Witness ==
    /\ Dispatching({"packed-switch"})
    /\ PackedIndex = Len(PackedCases) - 1
    /\ last.fault = ""
    /\ Post.pos # Pre.pos

\* C8: dispatching sparse-switch jumps, as goto does, to the label of the
\* first literal of the table equal to frame[register]; when no literal is
\* equal, pos and label are unchanged and nothing is raised.
C8_SparseSwitch ==
    Dispatching({"sparse-switch"}) =>
        IF SparseHits = {}
        THEN last.fault = "" /\ Post.pos = Pre.pos /\ Post.label = Pre.label
        ELSE Jumps(SparseBranches[FirstHit].label)

\* C9: each of the twelve conditional branches is dispatchable; a true
\* predicate has the effect of goto(label), a false one leaves the frame
\* unchanged, even when the label is not in frame.labels.
C9_ConditionalBranches ==
    Dispatching(IfTwo \cup IfZero) =>
        /\ last.fault # "KeyError"
        /\ IF BranchTaken THEN Jumps(BranchLabel) ELSE FallsThrough

(***************************************************************************)
(* throw and move-exception among other instructions on one frame.         *)
(***************************************************************************)
ThrowFrame(v0, v1) ==
    NewFrame([r \in {"v0", "v1"} |-> IF r = "v0" THEN v0 ELSE v1],
             ControlLabels, ControlSwitchData, NoTable)

EnterThrow ==
    /\ initPos = NumDefs
    /\ frames = NoFrames
    /\ \E v0 \in {IntV(0), IntV(MaxInt)} :
           frames' = [f \in {1} |-> ThrowFrame(v0, IntV(1))]
    /\ UNCHANGED <<executors, initPos, hframe, hargs, arrays, objects, procs, stack, last>>

\* Instructions of the handlers that are neither throw nor move-exception.
OtherInstructions ==
    {<<"nop", <<>>>>, <<"return-void", <<>>>>, <<"return", <<"v0">>>>,
     <<"goto", <<"L2">>>>, <<"goto", <<"L3">>>>, <<"const", <<"v1", <<"0", "x", "2">>>>>>,
     <<"move-result", <<"v1">>>>, <<"move", <<"v1", "v0">>>>,
     <<"packed-switch", <<"v0", "P0">>>>, <<"if-nez", <<"v0", "L1">>>>,
     <<"if-le", <<"v0", "v1", "L2">>>>}

DispatchThrow ==
    /\ Ready(ThrowSteps)
    /\ \E register \in {"v0", "v1"} : Dispatch(1, "throw", <<register>>)

DispatchMoveException ==
    /\ Ready(ThrowSteps)
    /\ \E dest \in {"v0", "v1"} : Dispatch(1, "move-exception", <<dest>>)

DispatchOther ==
    /\ Ready(ThrowSteps)
    /\ \E ins \in OtherInstructions : Dispatch(1, ins[1], ins[2])

NextThrow ==
    \/ Define
    \/ EnterThrow
    \/ DispatchThrow
    \/ DispatchMoveException
    \/ DispatchOther

SpecThrow == InitRegistry /\ [][NextThrow]_vars

\* The frame f of machine m with its error slot blanked.
SansError(m, f) == [m.frames[f] EXCEPT !.error = Null]

\* The outcome of instruction ins does not depend on the error slot.
IgnoresError(ins) ==
    LET blank == [Machine EXCEPT !.frames[1].error = Null]
        seen == Dispatched(Machine, 1, ins[1], ins[2])
        blind == Dispatched(blank, 1, ins[1], ins[2])
    IN  /\ seen.fault = blind.fault
        /\ SansError(seen.m, 1) = SansError(blind.m, 1)
        /\ seen.m.frames[1].error = frames[1].error

\* C6: throw vA raises nothing: it writes only the frame's error slot, with
\* the value of vA as the payload of the fault stored there, and leaves the
\* registers, pos, label, return_value, method_return and finished alone; a
\* following move-exception vB copies the error slot into vB, and no other
\* handler reads the error slot.
C6_ThrowStoresError ==
    /\ Dispatching({"throw"}) =>
          /\ last.fault = ""
          /\ Post = [Pre EXCEPT !.error = ErrV("RuntimeError", Pre.regs[last.args[1]])]
    /\ Dispatching({"move-exception"}) =>
          /\ last.fault = ""
          /\ Post = [Pre EXCEPT !.regs[last.args[1]] = Pre.error]
    /\ frames # NoFrames => \A ins \in OtherInstructions : IgnoresError(ins)

C6_Witness ==
    /\ Dispatching({"move-exception"})
    /\ Pre.error = ErrV("RuntimeError", IntV(MaxInt))
    /\ Post.regs["v1"] = Pre.error
    /\ Post.error = Pre.error

(***************************************************************************)
(* aput on arrays held in registers whose names differ in length.          *)
(***************************************************************************)
ArrayRegs == {"v1", "p10"}

Indexes == -1..(MaxLen + 1)

ArrayFrame(index) ==
    NewFrame([r \in {"v0", "v2"} \cup ArrayRegs |->
                 CASE r = "v0" -> IntV(MaxInt)
                   [] r = "v2" -> IntV(index)
                   [] r = "v1" -> ArrV(1)
                   [] r = "p10" -> ArrV(2)],
             NoTable, NoTable, NoTable)

EnterArray ==
    /\ initPos = NumDefs
    /\ frames = NoFrames
    /\ \E n \in 0..MaxLen, index \in Indexes :
           /\ frames' = [f \in {1} |-> ArrayFrame(index)]
           /\ arrays' = [a \in {1, 2} |-> [i \in 1..n |-> IntV(i - 1)]]
    /\ UNCHANGED <<executors, initPos, hframe, hargs, objects, procs, stack, last>>

AputNames ==
    {"aput", "aput-boolean", "aput-byte", "aput-char", "aput-object", "aput-short",
     "aput-wide"}

DispatchAput ==
    /\ Ready(ArraySteps)
    /\ \E name \in AputNames, array \in ArrayRegs : Dispatch(1, name, <<"v0", array, "v2">>)

AgetNames ==
    {"aget", "aget-boolean", "aget-byte", "aget-char", "aget-object", "aget-short",
     "aget-wide"}

DispatchAget ==
    /\ Ready(ArraySteps)
    /\ \E name \in AgetNames, array \in ArrayRegs : Dispatch(1, name, <<"v0", array, "v2">>)

NextArray ==
    \/ Define
    \/ EnterArray
    \/ DispatchAput
    \/ DispatchAget

SpecArray == InitRegistry /\ [][NextArray]_vars

\* The list an array register held before, and holds after, the dispatch.
PreList(register) == last.prearrays[Pre.regs[register].ref]
PostList(register) == arrays[Pre.regs[register].ref]

\* C10: for an array of length n in any register, aput src, array, index
\* appends frame[src] when index = n, overwrites slot index when
\* 0 <= index < n, and fails with IndexOutOfBounds leaving the array
\* unchanged when index > n or index < 0.
C10_AputBounds ==
    Dispatching(AputNames) =>
        LET before == PreList(last.args[2])
            after == PostList(last.args[2])
            value == Pre.regs[last.args[1]]
            index == Pre.regs[last.args[3]].i
        IN  CASE index = Len(before) ->
                   last.fault = "" /\ after = Append(before, value)
              [] index >= 0 /\ index < Len(before) ->
                   last.fault = "" /\ after = [before EXCEPT ![index + 1] = value]
              [] OTHER ->
                   last.fault = "IndexOutOfBoundsError" /\ after = before

\* C11: for an array of length n in any register, aget dest, array, index
\* sets dest to element index exactly when 0 <= index < n, and fails with
\* IndexOutOfBounds leaving dest unchanged when index >= n or index < 0.
C11_AgetBounds ==
    Dispatching(AgetNames) =>
        LET before == PreList(last.args[2])
            dest == last.args[1]
            index == Pre.regs[last.args[3]].i
        IN  IF index >= 0 /\ index < Len(before)
            THEN last.fault = "" /\ Post.regs[dest] = before[index + 1]
            ELSE last.fault = "IndexOutOfBoundsError" /\ Post.regs[dest] = Pre.regs[dest]

(***************************************************************************)
(* Two frames running concurrently dispatch the same Executor object.      *)
(* Every statement of Executor.__call__ and of the action is one step, and *)
(* each access to self.frame reads the Executor's frame field anew.  The   *)
(* log of a dispatch lists the accesses it made: the frame it reached      *)
(* through self.frame and the item it read or wrote there.                 *)
(***************************************************************************)
Access(kind, frame, item) == [kind |-> kind, frame |-> frame, item |-> item]

ThreadStart(frame, name, operands) ==
    [frame |-> frame, name |-> name, operands |-> operands, pc |-> "start",
     self |-> "", a |-> <<>>, tmp |-> Null, fault |-> "", log |-> <<>>]

ThreadFrame(base) ==
    NewFrame([r \in {"v0", "v1"} |-> IF r = "v0" THEN IntV(base) ELSE IntV(base + 1)],
             ControlLabels, NoTable, NoTable)

ThreadOperands(name) ==
    IF name = "move" THEN {<<"v0", "v1">>, <<"v1", "v0">>}
    ELSE {<<"L1">>, <<"L2">>, <<"L3">>}

EnterThreads ==
    /\ initPos = NumDefs
    /\ frames = NoFrames
    /\ frames' = [f \in {1, 2} |-> ThreadFrame(2 * f)]
    /\ \E name \in {"move", "goto"} :
           \E o1 \in ThreadOperands(name), o2 \in ThreadOperands(name) :
               procs' = [p \in {1, 2} |->
                            ThreadStart(p, name, IF p = 1 THEN o1 ELSE o2)]
    /\ UNCHANGED <<executors, initPos, hframe, hargs, arrays, objects, stack, last>>

Threads == DOMAIN procs

At(p, pc) == p \in Threads /\ procs[p].pc = pc

\* The caller looks the Executor up and stores the operands in its args field.
SetArgs(p) ==
    /\ At(p, "start")
    /\ LET found == executor(executors, procs[p].name)
       IN  /\ found.fault = ""
           /\ hargs' = [hargs EXCEPT ![found.handler] = procs[p].operands]
           /\ procs' = [procs EXCEPT ![p].self = found.handler, ![p].pc = "args"]
    /\ UNCHANGED <<executors, initPos, hframe, frames, arrays, objects, stack, last>>

\* __call__: self.frame = frame
SetFrame(p) ==
    /\ At(p, "args")
    /\ hframe' = [hframe EXCEPT ![procs[p].self] = procs[p].frame]
    /\ procs' = [procs EXCEPT ![p].pc = "frame"]
    /\ UNCHANGED <<executors, initPos, hargs, frames, arrays, objects, stack, last>>

\* __call__: self.args = self.args or (); self.action(self, *self.args) binds
\* the action's parameters to the stored args.
BindArgs(p) ==
    /\ At(p, "frame")
    /\ procs' = [procs EXCEPT ![p].a = hargs[procs[p].self],
                              ![p].pc = procs[p].self]
    /\ UNCHANGED <<executors, initPos, hframe, hargs, frames, arrays, objects, stack, last>>

\* move: the right-hand side self.frame[src]
MoveRead(p) ==
    /\ At(p, "move")
    /\ LET f == hframe[procs[p].self]
           src == procs[p].a[2]
       IN  procs' = [procs EXCEPT ![p].tmp = frames[f].regs[src],
                                  ![p].log = Append(@, Access("read", f, <<"reg", src>>)),
                                  ![p].pc = "move_store"]
    /\ UNCHANGED <<executors, initPos, hframe, hargs, frames, arrays, objects, stack, last>>

\* move: self.frame[dest] = ...
MoveWrite(p) ==
    /\ At(p, "move_store")
    /\ LET f == hframe[procs[p].self]
           dest == procs[p].a[1]
       IN  /\ frames' = [frames EXCEPT ![f].regs[dest] = procs[p].tmp]
           /\ procs' = [procs EXCEPT ![p].log = Append(@, Access("write", f, <<"reg", dest>>)),
                                     ![p].pc = "done"]
    /\ UNCHANGED <<executors, initPos, hframe, hargs, arrays, objects, stack, last>>

\* goto: if label not in self.frame.labels: raise
GotoCheck(p) ==
    /\ At(p, "goto")
    /\ LET f == hframe[procs[p].self]
           label == procs[p].a[1]
           absent == label \notin DOMAIN frames[f].labels
       IN  procs' = [procs EXCEPT ![p].log = Append(@, Access("read", f, <<"labels", label>>)),
                                  ![p].fault = IF absent THEN "NoSuchLabelError" ELSE "",
                                  ![p].pc = IF absent THEN "done" ELSE "goto_label"]
    /\ UNCHANGED <<executors, initPos, hframe, hargs, frames, arrays, objects, stack, last>>

\* goto: self.frame.label = label
GotoLabel(p) ==
    /\ At(p, "goto_label")
    /\ LET f == hframe[procs[p].self]
           label == procs[p].a[1]
       IN  /\ frames' = [frames EXCEPT ![f].label = label]
           /\ procs' = [procs EXCEPT ![p].log = Append(@, Access("write", f, <<"label", label>>)),
                                     ![p].pc = "goto_target"]
    /\ UNCHANGED <<executors, initPos, hframe, hargs, arrays, objects, stack, last>>

\* goto: the right-hand side self.frame.labels[label]
GotoTarget(p) ==
    /\ At(p, "goto_target")
    /\ LET f == hframe[procs[p].self]
           label == procs[p].a[1]
       IN  procs' = [procs EXCEPT ![p].tmp = frames[f].labels[label],
                                  ![p].log = Append(@, Access("read", f, <<"labels", label>>)),
                                  ![p].pc = "goto_pos"]
    /\ UNCHANGED <<executors, initPos, hframe, hargs, frames, arrays, objects, stack, last>>

\* goto: self.frame.pos = ...
GotoPos(p) ==
    /\ At(p, "goto_pos")
    /\ LET f == hframe[procs[p].self]
           label == procs[p].a[1]
       IN  /\ frames' = [frames EXCEPT ![f].pos = procs[p].tmp]
           /\ procs' = [procs EXCEPT ![p].log = Append(@, Access("write", f, <<"pos", label>>)),
                                     ![p].pc = "done"]
    /\ UNCHANGED <<executors, initPos, hframe, hargs, arrays, objects, stack, last>>

NextThreads ==
    \/ Define
    \/ EnterThreads
    \/ \E p \in {1, 2} :
           \/ SetArgs(p)
           \/ SetFrame(p)
           \/ BindArgs(p)
           \/ MoveRead(p)
           \/ MoveWrite(p)
           \/ GotoCheck(p)
           \/ GotoLabel(p)
           \/ GotoTarget(p)
           \/ GotoPos(p)

SpecThreads == InitRegistry /\ [][NextThreads]_vars

\* The accesses the dispatch p was asked to make: on its own frame, with the
\* operands given to it.
OwnAccesses(p) ==
    LET f == procs[p].frame
        o == procs[p].operands
    IN  IF procs[p].name = "move"
        THEN {Access("read", f, <<"reg", o[2]>>), Access("write", f, <<"reg", o[1]>>)}
        ELSE {Access("read", f, <<"labels", o[1]>>), Access("write", f, <<"label", o[1]>>),
              Access("write", f, <<"pos", o[1]>>)}

\* C2: a handler retains no frame or operand state between dispatches: in
\* every interleaving of two dispatches of one handler object on two frames,
\* each read and write of a dispatch targets the frame it was dispatched on
\* and uses the operands given to that dispatch.
C2_NoRetainedState ==
    \A p \in Threads : Range(procs[p].log) \subseteq OwnAccesses(p)

(***************************************************************************)
(* invoke, up to its call of frame.vm.call: what the handler has decided   *)
(* when it returns early, raises, or calls the collaborator.               *)
(***************************************************************************)
Skipped(m) == [k |-> "skip", m |-> m, fault |-> "", resolved |-> <<>>]
Raised(m, kind) == [k |-> "raise", m |-> m, fault |-> kind, resolved |-> <<>>]
Stored(m, self, value) ==
    [k |-> "stored", fault |-> "", resolved |-> <<>>,
     m |-> [m EXCEPT !.frames[m.hframe[self]].method_return = value]]
Calls(m, target, instance, values) ==
    [k |-> "call", m |-> m, fault |-> "", target |-> target, instance |-> instance,
     values |-> values, resolved |-> <<>>]

\* The outcome of a part of invoke that has asked frame.vm.get_class for
\* descriptor.
Resolving(descriptor, outcome) == [outcome EXCEPT !.resolved = <<descriptor>>]

\* [self.frame[register] for register in args]
Values(m, self, args) == [i \in 1..Len(args) |-> Get(m, self, args[i])]

invokeKeepsReceiver(m, self, inv_type, args, owner, method) ==
    IF inv_type \notin {"direct", "virtual", "static"} THEN Skipped(m)
    ELSE LET values == Values(m, self, args)
             vm_class == get_class(owner)
         IN  IF inv_type # "static" /\ (Len(values) = 0 \/ values[1].t # "obj")
             THEN Raised(m, "AttributeError")
             ELSE IF vm_class.fault # "" THEN Raised(m, vm_class.fault)
             ELSE LET target == method_of(vm_class.value, method)
                  IN  IF target.fault # "" THEN Raised(m, target.fault)
                      ELSE Calls(m, target.value,
                                 IF inv_type = "static" THEN Null ELSE values[1], values)

invokeOnReceiverClass(m, self, inv_type, args, owner, method) ==
    LET values == Values(m, self, args)
        instance == values[1]
        vm_class == IF inv_type # "static" THEN ClsV(instance.cls) ELSE ClsV(owner)
        target == method_of(vm_class, method)
    IN  IF target.fault # "" THEN Raised(m, target.fault)
        ELSE IF inv_type = "static" THEN Calls(m, target.value, Null, values)
        ELSE Calls(m, target.value, instance, Tail(values))

invoke(m, self, inv_type, args, owner, method) ==
    IF inv_type \notin {"direct", "virtual", "static"} THEN Skipped(m)
    ELSE IF owner = "Ljava/lang/Class;"
    THEN IF Len(args) = 0 THEN Raised(m, "IndexError")
         ELSE IF method \notin ClassBridge THEN Raised(m, "NoSuchMethodError")
         ELSE LET r == ClassNative(method, Get(m, self, args[1]))
              IN  IF r.fault # "" THEN Raised(m, r.fault) ELSE Stored(m, self, r.value)
    ELSE IF owner = "Ljava/lang/Object;"
    THEN IF method \notin ObjectBridge THEN Raised(m, "NoSuchMethodError")
         ELSE IF Len(args) = 0 THEN Raised(m, "IndexError")
         ELSE LET r == ObjectNative(method, Get(m, self, args[1]))
              IN  IF r.fault # "" THEN Raised(m, r.fault) ELSE Stored(m, self, r.value)
    ELSE
        LET values == Values(m, self, args)
            static == inv_type = "static"
        IN  IF ~static /\ Len(values) = 0 THEN Raised(m, "IndexError")
            ELSE IF ~static /\ values[1].t # "obj" THEN Raised(m, "AttributeError")
            ELSE
              LET instance == IF static THEN Null ELSE values[1]
                  super_cls == IF static THEN "" ELSE ClassTable[instance.cls].super_cls
                  vm_class == IF ~static /\ super_cls = owner
                              THEN get_class(super_cls)
                              ELSE get_class(owner)
                  remaining == IF static THEN values ELSE Tail(values)
              IN  Resolving(IF ~static /\ super_cls = owner THEN super_cls ELSE owner,
                      IF vm_class.fault # "" THEN Raised(m, vm_class.fault)
                      ELSE LET target == method_of(vm_class.value, method)
                           IN  IF target.fault # "" THEN Raised(m, target.fault)
                               ELSE Calls(m, target.value, instance, remaining))

(***************************************************************************)
(* Nested interpretation.  frame.vm.call(target, instance, *values) builds *)
(* a frame for the method and runs its instructions, one dispatch at a     *)
(* time through the same registry, until the frame has finished; its value *)
(* is the frame's return_value.  The invoke that made the call is          *)
(* suspended meanwhile: stack lists the suspended invokes, innermost last. *)
(***************************************************************************)
InvokeNames == {"invoke", "invoke-direct", "invoke-static", "invoke-virtual"}

InvokeSteps == 2

\* The frame in which instructions are being dispatched.
Current == IF Len(stack) = 0 THEN 1 ELSE stack[Len(stack)].callee

CalleeFrame(instance) ==
    NewFrame([r \in {"p0", "v0"} |-> IF r = "p0" THEN instance ELSE Null],
             NoTable, NoTable, NoTable)

InvokeRecord(name, operands, frame, fault, pre, prearrays, called, result, call, count) ==
    [op |-> name, args |-> operands, frame |-> frame, fault |-> fault,
     pre |-> pre, prearrays |-> prearrays, n |-> last.n + count,
     called |-> called, result |-> result, call |-> call, prior |-> Brief(last),
     callee |-> 0, atreturn |-> NoFrames]

NoCall == [target |-> Null, instance |-> Null, values |-> <<>>, resolved |-> <<>>]

\* An invoke instruction is dispatched on frame: the Executor is looked up,
\* given the operands and called; the handler runs up to its call of
\* frame.vm.call, which suspends it, or completes without a call.
BeginInvoke(frame, name, operands, advance, count) ==
    /\ initPos = NumDefs
    /\ LET self == executor(executors, name).handler
           m1 == [Machine EXCEPT !.hargs[self] = operands, !.hframe[self] = frame]
           a == m1.hargs[self]
           out == invoke(m1, self, a[1], a[2], a[3], a[4])
       IN  /\ hframe' = out.m.hframe
           /\ hargs' = out.m.hargs
           /\ arrays' = out.m.arrays
           /\ objects' = out.m.objects
           /\ IF out.k = "call"
              THEN /\ frames' =
                         [f \in DOMAIN frames \cup {Len(frames) + 1} |->
                             IF f \in DOMAIN frames THEN out.m.frames[f]
                             ELSE CalleeFrame(out.instance)]
                   /\ stack' = Append(stack,
                         [name |-> name, operands |-> operands, self |-> self,
                          caller |-> frame, callee |-> Len(frames) + 1,
                          pre |-> frames, prearrays |-> arrays,
                          advance |-> advance, count |-> count,
                          call |-> [target |-> out.target, instance |-> out.instance,
                                    values |-> out.values, resolved |-> out.resolved]])
                   /\ last' = last
              ELSE /\ frames' = [out.m.frames EXCEPT ![frame].pos = @ + advance]
                   /\ stack' = stack
                   /\ last' = InvokeRecord(name, operands, frame, out.fault, frames,
                                           arrays, FALSE, Null,
                                           [NoCall EXCEPT !.resolved = out.resolved],
                                           count)
    /\ UNCHANGED <<executors, initPos, procs>>

\* The called method's frame runs its next instruction.
CalleeStep ==
    /\ Len(stack) > 0
    /\ ~frames[Current].finished
    /\ LET code == CodeOf(stack[Len(stack)].call.target)
           ins == code[frames[Current].pos + 1]
       IN  IF ins.name \in InvokeNames
           THEN BeginInvoke(Current, ins.name, ins.operands, 1, 0)
           ELSE DispatchAt(Current, ins.name, ins.operands, 1, 0)

\* The record of the completed invoke also names the callee's frame and
\* holds the frames as they were when the call returned.
\* frame.vm.call returns the finished frame's return_value to the suspended
\* invoke, which stores it: self.frame.method_return = <the value returned>.
\* self.frame is read from the Executor once the call has returned.
ReturnInvoke ==
    /\ Len(stack) > 0
    /\ frames[Current].finished
    /\ LET act == stack[Len(stack)]
           result == frames[act.callee].return_value
           target == hframe[act.self]
       IN  /\ frames' = [frames EXCEPT ![target].method_return = result,
                                       ![act.caller].pos = @ + act.advance]
           /\ stack' = SubSeq(stack, 1, Len(stack) - 1)
           /\ last' = [InvokeRecord(act.name, act.operands, act.caller, "", act.pre,
                                    act.prearrays, TRUE, result, act.call, act.count)
                       EXCEPT !.callee = act.callee, !.atreturn = frames]
    /\ UNCHANGED <<executors, initPos, hframe, hargs, arrays, objects, procs>>

Receivers == {ObjV(1, "LA;"), ObjV(1, "LB;")}

InvokeFrame(receiver) ==
    NewFrame([r \in {"v0", "v1"} |-> IF r = "v0" THEN receiver ELSE IntV(0)],
             NoTable, NoTable, NoTable)

EnterInvoke ==
    /\ initPos = NumDefs
    /\ frames = NoFrames
    /\ \E receiver \in Receivers : frames' = [f \in {1} |-> InvokeFrame(receiver)]
    /\ UNCHANGED <<executors, initPos, hframe, hargs, arrays, objects, procs, stack, last>>

Owners == {"LA;", "LB;"}
Signatures == {"m()I", "n()I", "s()I"}

Idling == Ready(InvokeSteps) /\ Len(stack) = 0

DispatchInvokeStatic ==
    /\ Idling
    /\ \E owner \in Owners, method \in Signatures, args \in {<<>>, <<"v1">>} :
           BeginInvoke(1, "invoke-static", <<"static", args, owner, method>>, 0, 1)

DispatchInvokeInstance ==
    /\ Idling
    /\ \E kind \in {"direct", "virtual"}, owner \in Owners, method \in Signatures,
          args \in {<<"v0">>, <<"v0", "v1">>} :
           BeginInvoke(1, "invoke-" \o kind, <<kind, args, owner, method>>, 0, 1)

DispatchMoveResult ==
    /\ Idling
    /\ \E name \in {"move-result", "move-result-object"}, register \in {"v0", "v1"} :
           Dispatch(1, name, <<register>>)

NextInvoke ==
    \/ Define
    \/ EnterInvoke
    \/ DispatchInvokeStatic
    \/ DispatchInvokeInstance
    \/ DispatchMoveResult
    \/ CalleeStep
    \/ ReturnInvoke

SpecInvoke == InitRegistry /\ [][NextInvoke]_vars

MoveResultNames == {"move-result", "move-result-object"}

\* C4: an invoke dispatched on a frame stores the callee's result in that
\* frame's method_return and writes none of its registers; a following
\* move-result vX on the same frame sets vX to exactly that result and
\* leaves method_return unchanged.
C4_InvokeThenMoveResult ==
    /\ (Dispatching(InvokeNames) /\ last.called) =>
          /\ Post.method_return = last.result
          /\ Post.regs = Pre.regs
    /\ (/\ Dispatching(MoveResultNames)
        /\ last.prior.op \in InvokeNames
        /\ last.prior.called
        /\ last.prior.frame = last.frame) =>
          /\ Post.regs[last.args[1]] = last.prior.result
          /\ Post.method_return = Pre.method_return

\* What the method sig of class cls returns when its body is a literal.
LiteralOf(cls, sig) == SmaliValue(ClassTable[cls].methods[sig][1].operands[2])

InstanceCall(operands) == operands[1] \in {"direct", "virtual"}

\* C5: for a non-intrinsic invoke-virtual or invoke-direct the class on which
\* the signature is resolved is the owner operand: with the owner the direct
\* superclass of the receiver's class, the superclass's method is called even
\* if the receiver's class defines the signature, and the receiver's class
\* never selects an override.
C5_OwnerSelectsClass ==
    /\ \A i \in 1..Len(stack) :
          InstanceCall(stack[i].operands) =>
              stack[i].call.target =
                  [cls |-> stack[i].operands[3], sig |-> stack[i].operands[4]]
    /\ (Dispatching(InvokeNames) /\ last.called /\ InstanceCall(last.args)) =>
          /\ last.call.target = [cls |-> last.args[3], sig |-> last.args[4]]
          /\ last.args[4] = "m()I" => last.result = LiteralOf(last.args[3], "m()I")

C5_Witness ==
    /\ Dispatching({"invoke-virtual"})
    /\ last.called
    /\ last.call.instance.cls = "LB;"
    /\ ClassTable["LB;"].super_cls = last.args[3]
    /\ last.args[4] \in DOMAIN ClassTable["LB;"].methods
    /\ last.call.target.cls = "LA;"
    /\ last.result = IntV(1)

(***************************************************************************)
(* Instances on one frame: new-instance, then iput and iget on registers   *)
(* that hold an instance or something else.                                *)
(***************************************************************************)
ObjectSteps == 3

ObjectFrame ==
    NewFrame([r \in {"v0", "v1", "v2", "v3"} |->
                 CASE r = "v0" -> IntV(MaxInt)
                   [] r = "v3" -> IntV(0)
                   [] OTHER -> Null],
             NoTable, NoTable, NoTable)

EnterObject ==
    /\ initPos = NumDefs
    /\ frames = NoFrames
    /\ frames' = [f \in {1} |-> ObjectFrame]
    /\ UNCHANGED <<executors, initPos, hframe, hargs, arrays, objects, procs, stack, last>>

Descriptors == {"I", "LA;", "LZ;"}

Infos ==
    {<<"LA;", "->", "x", ":", "I">>, <<"LB;", "->", "y", ":", "J">>, <<"x", ":", "I">>}

IgetNames == {"iget-object", "iget"}
IputNames == {"iput-object", "iput"}

DispatchNewInstance ==
    /\ Ready(ObjectSteps)
    /\ \E register \in {"v1", "v2"}, descriptor \in Descriptors :
           Dispatch(1, "new-instance", <<register, descriptor>>)

DispatchIput ==
    /\ Ready(ObjectSteps)
    /\ \E name \in IputNames, obj \in {"v1", "v2"}, info \in Infos :
           Dispatch(1, name, <<"v0", obj, info>>)

DispatchIget ==
    /\ Ready(ObjectSteps)
    /\ \E name \in IgetNames, src \in {"v1", "v2"}, info \in Infos :
           Dispatch(1, name, <<"v3", src, info>>)

NextObject ==
    \/ Define
    \/ EnterObject
    \/ DispatchNewInstance
    \/ DispatchIput
    \/ DispatchIget

SpecObject == InitRegistry /\ [][NextObject]_vars

\* The references held by the registers of all frames before the dispatch.
HeldBefore ==
    {last.pre[f].regs[r] : f \in {g \in DOMAIN last.pre : TRUE},
                           r \in {"v0", "v1", "v2", "v3"}}

\* C12: new-instance on descriptor I stores Integer 0 and allocates
\* nothing; on a user-class descriptor it stores a reference to a freshly
\* allocated instance: a reference that no register held and no object had
\* before, whose fields are its own, every earlier instance being unchanged.
C12_NewInstanceFresh ==
    Dispatching({"new-instance"}) =>
        LET dest == last.args[1]
            descriptor == last.args[2]
        IN  /\ descriptor = "I" =>
                /\ last.fault = ""
                /\ Post.regs[dest] = IntV(0)
                /\ objects = last.preobjects
            /\ descriptor \in DOMAIN ClassTable =>
                /\ last.fault = ""
                /\ Post.regs[dest].t = "obj"
                /\ Post.regs[dest].cls = descriptor
                /\ Post.regs[dest].oid \in (1..Len(objects)) \ (1..Len(last.preobjects))
                /\ \A v \in HeldBefore : v.t = "obj" => v.oid # Post.regs[dest].oid
                /\ \A o \in 1..Len(last.preobjects) : objects[o] = last.preobjects[o]
                /\ \A f \in FieldNames : objects[Post.regs[dest].oid].fields[f] = Null

\* A second instance of a class has been allocated, the first one having a
\* field written.
C12_Witness ==
    /\ Dispatching({"new-instance"})
    /\ last.fault = ""
    /\ last.args[2] = "LA;"
    /\ Len(last.preobjects) = 1
    /\ last.preobjects[1].cls = "LA;"
    /\ last.preobjects[1].fields["x"] = IntV(MaxInt)
    /\ Len(objects) = 2

\* C15: iget and iput fail with ClassCast whenever the object register does
\* not hold an instance, and then no register and no field is modified; an
\* iget that follows an iput of the same field on the same instance yields
\* the value that was put.
C15_InstanceFields ==
    /\ (Dispatching(IgetNames \cup IputNames) /\ Pre.regs[last.args[2]].t # "obj") =>
           /\ last.fault = "ClassCastError"
           /\ frames = last.pre
           /\ objects = last.preobjects
    /\ ( /\ Dispatching(IgetNames)
         /\ last.prior.op \in IputNames
         /\ last.prior.fault = ""
         /\ last.fault = ""
         /\ Pre.regs[last.args[2]] = Pre.regs[last.prior.args[2]]
         /\ FieldName(last.args[3]) = FieldName(last.prior.args[3]) ) =>
           Post.regs[last.args[1]] = Pre.regs[last.prior.args[1]]

\* A value put into a field of an instance has been read back from it.
C15_Witness ==
    /\ Dispatching(IgetNames)
    /\ last.prior.op \in IputNames
    /\ last.prior.fault = ""
    /\ last.fault = ""
    /\ Pre.regs[last.args[2]].t = "obj"
    /\ Pre.regs[last.args[2]] = Pre.regs[last.prior.args[2]]
    /\ FieldName(last.args[3]) = FieldName(last.prior.args[3])
    /\ Post.regs["v3"] = IntV(MaxInt)

(***************************************************************************)
(* A method body run by the interpreter's loop on one frame: the           *)
(* instruction at the cursor is dispatched and the cursor advances, until  *)
(* the frame has finished.                                                 *)
(***************************************************************************)
Program ==
    <<Ins("const", <<"v0", <<"5">>>>),
      Ins("const", <<"v1", <<"3">>>>),
      Ins("add-int", <<"v2", "v0", "v1">>),
      Ins("return", <<"v2">>)>>

Garbage == {Null, IntV(0), IntV(MaxInt)}

EnterProgram ==
    /\ initPos = NumDefs
    /\ frames = NoFrames
    /\ \E v0 \in Garbage, v1 \in Garbage, v2 \in Garbage :
           frames' = [f \in {1} |->
                         NewFrame([r \in {"v0", "v1", "v2"} |->
                                      CASE r = "v0" -> v0 [] r = "v1" -> v1 [] r = "v2" -> v2],
                                  NoTable, NoTable, NoTable)]
    /\ UNCHANGED <<executors, initPos, hframe, hargs, arrays, objects, procs, stack, last>>

ProgramStep ==
    /\ frames # NoFrames
    /\ ~frames[1].finished
    /\ frames[1].pos < Len(Program)
    /\ LET ins == Program[frames[1].pos + 1]
       IN  DispatchAt(1, ins.name, ins.operands, 1, 1)

NextProgram ==
    \/ Define
    \/ EnterProgram
    \/ ProgramStep

SpecProgram == InitRegistry /\ [][NextProgram]_vars

\* C13: const v0, 5; const v1, 3; add-int v2, v0, v1; return v2 dispatched
\* in order on one frame raise nothing and end with return_value = 8 and the
\* frame finished, v0 = 5 and v1 = 3 being left unchanged by add-int and
\* return.
C13_AddProgram ==
    frames # NoFrames =>
        /\ last.fault = ""
        /\ frames[1].pos >= 1 => frames[1].regs["v0"] = IntV(5)
        /\ frames[1].pos >= 2 => frames[1].regs["v1"] = IntV(3)
        /\ frames[1].pos >= 3 => frames[1].regs["v2"] = IntV(8)
        /\ frames[1].pos < 4 => ~frames[1].finished /\ frames[1].return_value = Null
        /\ frames[1].pos = 4 => frames[1].finished /\ frames[1].return_value = IntV(8)

\* The four instructions have run on a frame whose registers held other
\* values before.
C13_Witness ==
    /\ frames # NoFrames
    /\ frames[1].pos = 4
    /\ last.op = "return"
    /\ last.prior.op = "add-int"
    /\ frames[1].return_value = IntV(8)
    /\ frames[1].finished

(***************************************************************************)
(* One arithmetic instruction on a fresh frame: v1 holds the left operand, *)
(* v2 the right one, and a literal-immediate form takes its right operand  *)
(* as a literal text.                                                      *)
(***************************************************************************)
Lefts == {IntV(-7), IntV(-1), IntV(0), IntV(3)}
Rights == {IntV(-2), IntV(0), IntV(2), IntV(3)}

Literals ==
    {<<"-", "1">>, <<"1", "0">>, <<"2">>, <<"0">>, <<"0", "x", "1", "0", "2">>,
     <<"0", "x", "1", "0", "0", "0", "3">>}

ArithFrame(left, right) ==
    NewFrame([r \in {"v0", "v1", "v2"} |->
                 CASE r = "v0" -> Null [] r = "v1" -> left [] r = "v2" -> right],
             NoTable, NoTable, NoTable)

EnterArith ==
    /\ initPos = NumDefs
    /\ frames = NoFrames
    /\ \E left \in Lefts, right \in Rights :
           frames' = [f \in {1} |-> ArithFrame(left, right)]
    /\ UNCHANGED <<executors, initPos, hframe, hargs, arrays, objects, procs, stack, last>>

\* The literal-immediate mnemonics with the operator and the modulus of
\* the literal's width.
LitForms ==
    {[name |-> OpcodeName(<<o[1], "_", "int", "_", "_", w[1]>>), op |-> o[2], mod |-> w[2]] :
        o \in {<<"div", "//">>, <<"add", "+">>, <<"sub", "-">>, <<"mul", "*">>,
               <<"rem", "%">>, <<"and", "&">>, <<"or", "|">>, <<"xor", "^">>,
               <<"shl", "<<">>, <<"shr", ">>">>},
        w \in {<<"lit8", 256>>, <<"lit16", 65536>>}}
    \cup {[name |-> "rsub-int/lit8", op |-> "rsub", mod |-> 256]}

LitNames == {row.name : row \in LitForms}

\* The largest left shift of a non-zero operand whose result is dispatched.
ShiftMax == 10

Fresh == frames # NoFrames /\ last.op = "none"

DispatchLit ==
    /\ Fresh
    /\ \E row \in LitForms, literal \in Literals :
           /\ row.op = "<<" =>
                  \/ frames[1].regs["v1"] = IntV(0)
                  \/ SmaliValue(literal).i % row.mod <= ShiftMax
           /\ Dispatch(1, row.name, <<"v0", "v1", literal>>)

DispatchDiv ==
    /\ Fresh
    /\ Dispatch(1, "div-int", <<"v0", "v1", "v2">>)

DispatchDiv2addr ==
    /\ Fresh
    /\ \E name \in {"div-int/2addr", "div-long/2addr"} : Dispatch(1, name, <<"v1", "v2">>)

NextArith ==
    \/ Define
    \/ EnterArith
    \/ DispatchLit
    \/ DispatchDiv
    \/ DispatchDiv2addr

SpecArith == InitRegistry /\ [][NextArith]_vars

\* The literal-immediate form that was dispatched, the integer its literal
\* text writes, and that integer's low 8 or 16 bits as an unsigned number.
LitForm == CHOOSE row \in LitForms : row.name = last.op
Written == SmaliValue(last.args[3]).i
LowBits == Written % LitForm.mod
LeftBefore == Pre.regs[last.args[2]]

\* C16: every lit8 (lit16) form applies its operator to the literal reduced
\* to its low 8 (16) bits as an unsigned value in 0..255 (0..65535),
\* whatever the literal's written sign; and-int/lit8 with the literal -1
\* yields left & 0xFF.
C16_LiteralMasked ==
    Dispatching(LitNames) =>
        LET expected == IF LitForm.op = "rsub"
                        THEN HostOp("-", IntV(LowBits), LeftBefore)
                        ELSE HostOp(LitForm.op, LeftBefore, IntV(LowBits))
        IN  /\ LowBits \in 0..(LitForm.mod - 1)
            /\ last.fault = expected.fault
            /\ last.fault = "" => Post.regs[last.args[1]] = expected.value
            /\ (last.op = "and-int/lit8" /\ last.args[3] = <<"-", "1">>) =>
                   Post.regs[last.args[1]] = IntV(LeftBefore.i % 256)

\* and-int/lit8 with the literal -1 on a negative left operand.
C16_Witness ==
    /\ Dispatching({"and-int/lit8"})
    /\ last.args[3] = <<"-", "1">>
    /\ LeftBefore = IntV(-7)
    /\ Post.regs["v0"] = IntV(249)

\* C17: rsub-int/lit8 stores (literal masked to 8 unsigned bits) - left,
\* sub-int/lit8 stores left - (literal masked to 8 unsigned bits).
C17_ReverseSubtract ==
    /\ Dispatching({"rsub-int/lit8"}) =>
           last.fault = "" /\ Post.regs[last.args[1]] = IntV(LowBits - LeftBefore.i)
    /\ Dispatching({"sub-int/lit8"}) =>
           last.fault = "" /\ Post.regs[last.args[1]] = IntV(LeftBefore.i - LowBits)

\* rsub-int/lit8 with literal 10 and left = 3 has stored 7.
C17_Witness ==
    /\ Dispatching({"rsub-int/lit8"})
    /\ last.args[3] = <<"1", "0">>
    /\ LeftBefore = IntV(3)
    /\ Post.regs["v0"] = IntV(7)

DivNames == {"div-int", "div-int/2addr", "div-long/2addr", "div-int/lit8", "div-int/lit16"}

\* The dividend and the divisor of the division that was dispatched.
Dividend == IF Len(last.args) = 2 THEN Pre.regs[last.args[1]].i ELSE LeftBefore.i
Divisor ==
    IF Len(last.args) = 2 THEN Pre.regs[last.args[2]].i
    ELSE IF last.op = "div-int" THEN Pre.regs[last.args[3]].i
    ELSE LowBits

\* C18: div-int, div-int/2addr, div-int/lit8 and div-int/lit16 store, for
\* every dividend n and non-zero divisor d, the quotient floored toward
\* negative infinity: q*d <= n < (q+1)*d for d > 0, and the mirrored
\* inequalities for d < 0.
C18_DivisionFloors ==
    (Dispatching(DivNames) /\ Divisor # 0) =>
        LET q == Post.regs[last.args[1]].i
            n == Dividend
            d == Divisor
        IN  /\ last.fault = ""
            /\ Post.regs[last.args[1]].t = "int"
            /\ d > 0 => q * d <= n /\ n < (q + 1) * d
            /\ d < 0 => q * d >= n /\ n > (q + 1) * d

\* (-7) / 2 has stored -4.
C18_Witness ==
    /\ Dispatching({"div-int"})
    /\ Dividend = -7
    /\ Divisor = 2
    /\ Post.regs["v0"] = IntV(-4)

(***************************************************************************)
(* One invoke on the intrinsic classes, on a fresh frame whose registers   *)
(* hold an instance, an integer and a class.                               *)
(***************************************************************************)
Intrinsics == {"Ljava/lang/Object;", "Ljava/lang/Class;"}

IntrinsicFrame(receiver, returned) ==
    [NewFrame([r \in {"v0", "v1", "v2"} |->
                  CASE r = "v0" -> receiver [] r = "v1" -> IntV(0) [] r = "v2" -> ClsV("LA;")],
              NoTable, NoTable, NoTable)
     EXCEPT !.method_return = returned]

EnterIntrinsic ==
    /\ initPos = NumDefs
    /\ frames = NoFrames
    /\ \E receiver \in Receivers, returned \in {Null, IntV(MaxInt)} :
           frames' = [f \in {1} |-> IntrinsicFrame(receiver, returned)]
    /\ UNCHANGED <<executors, initPos, hframe, hargs, arrays, objects, procs, stack, last>>

IntrinsicSignatures == ObjectBridge \cup ClassBridge \cup {"missing()V"}

DispatchInvokeIntrinsic ==
    /\ Fresh
    /\ \E kind \in {"static", "direct", "virtual"}, owner \in Intrinsics,
          method \in IntrinsicSignatures,
          args \in {<<>>, <<"v0">>, <<"v1">>, <<"v2">>, <<"v2", "v1">>} :
           BeginInvoke(1, "invoke-" \o kind, <<kind, args, owner, method>>, 0, 1)

NextIntrinsic ==
    \/ Define
    \/ EnterIntrinsic
    \/ DispatchInvokeIntrinsic

SpecIntrinsic == InitRegistry /\ [][NextIntrinsic]_vars

\* What the native bridge of owner yields for method on the value x.
Native(owner, method, x) ==
    IF owner = "Ljava/lang/Class;" THEN ClassNative(method, x) ELSE ObjectNative(method, x)

Bridge(owner) == IF owner = "Ljava/lang/Class;" THEN ClassBridge ELSE ObjectBridge

\* C14: an invoke whose owner is Ljava/lang/Object; or Ljava/lang/Class;
\* fails with NoSuchMethod and leaves method_return unchanged when the
\* signature is not in the owner's native bridge; otherwise method_return
\* becomes the native function's value on frame[args[0]] (the function's own
\* failure on that value being the dispatch's); in both cases neither
\* get_class nor the call collaborator is consulted.
C14_IntrinsicBridge ==
    (Dispatching(InvokeNames) /\ last.args[3] \in Intrinsics) =>
        LET args == last.args[2]
            owner == last.args[3]
            method == last.args[4]
        IN  /\ method \notin Bridge(owner) =>
                /\ last.fault = "NoSuchMethodError"
                /\ Post.method_return = Pre.method_return
            /\ (method \in Bridge(owner) /\ Len(args) > 0) =>
                LET r == Native(owner, method, Pre.regs[args[1]])
                IN  /\ last.fault = r.fault
                    /\ r.fault = "" => Post.method_return = r.value
            /\ ~last.called
            /\ last.call.resolved = <<>>
            /\ Len(stack) = 0

\* C19: when an invoke dispatched on frame F has called a method whose body
\* ran on another frame G and dispatched handlers of its own, invoke among
\* them, then on completion the call's result is in F.method_return and
\* every other frame, G included, is as it was when the call returned:
\* neither G.method_return nor any register or slot of G is written.
C19_NestedInvoke ==
    (Dispatching(InvokeNames) /\ last.called /\ DOMAIN frames = DOMAIN last.atreturn) =>
        /\ last.callee # last.frame
        /\ frames[last.frame].method_return = last.result
        /\ \A g \in DOMAIN frames \ {last.frame} : frames[g] = last.atreturn[g]

(***************************************************************************)
(* fill-array-data and aput on one frame whose array_data holds one        *)
(* literal sequence under the label L.                                     *)
(***************************************************************************)
FillSteps == 3

FillFrame(index) ==
    NewFrame([r \in {"v0", "v1", "v2", "v3"} |->
                 CASE r = "v0" -> IntV(MaxInt)
                   [] r = "v2" -> IntV(index)
                   [] OTHER -> Null],
             NoTable, NoTable, [l \in {"L"} |-> 1])

EnterFill ==
    /\ initPos = NumDefs
    /\ frames = NoFrames
    /\ \E index \in 0..MaxLen :
           /\ frames' = [f \in {1} |-> FillFrame(index)]
           /\ arrays' = <<[i \in 1..MaxLen |-> IntV(i - 1)]>>
    /\ UNCHANGED <<executors, initPos, hframe, hargs, objects, procs, stack, last>>

DispatchFill ==
    /\ Ready(FillSteps)
    /\ \E dest \in {"v1", "v3"}, label \in {"L", "M"} :
           Dispatch(1, "fill-array-data", <<dest, label>>)

DispatchAputFilled ==
    /\ Ready(FillSteps)
    /\ \E array \in {"v1", "v3"} :
           /\ frames[1].regs[array].t = "arr"
           /\ Dispatch(1, "aput", <<"v0", array, "v2">>)

NextFill ==
    \/ Define
    \/ EnterFill
    \/ DispatchFill
    \/ DispatchAputFilled

SpecFill == InitRegistry /\ [][NextFill]_vars

\* The lists of frame.array_data, and the registers that hold an array.
LiteralLists == {Pre.array_data[l] : l \in DOMAIN Pre.array_data}
ArrayHolders == {r \in DOMAIN Pre.regs : Pre.regs[r].t = "arr"}

\* C20: fill-array-data dest, label gives dest a copy of the literal
\* sequence: a list that is neither the one of frame.array_data nor one held
\* by another register, with the literal's elements; and an aput on the
\* array of a register changes neither a list of frame.array_data nor the
\* array held by any other register.
C20_FillCopies ==
    /\ (Dispatching({"fill-array-data"}) /\ last.fault = "") =>
           /\ Post.regs[last.args[1]].t = "arr"
           /\ arrays[Post.regs[last.args[1]].ref] = last.prearrays[Pre.array_data[last.args[2]]]
           /\ Post.regs[last.args[1]].ref \notin LiteralLists
           /\ \A r \in ArrayHolders \ {last.args[1]} :
                  Pre.regs[r].ref # Post.regs[last.args[1]].ref
    /\ Dispatching({"aput"}) =>
           /\ \A a \in LiteralLists : arrays[a] = last.prearrays[a]
           /\ \A r \in ArrayHolders \ {last.args[2]} :
                  arrays[Pre.regs[r].ref] = last.prearrays[Pre.regs[r].ref]

(***************************************************************************)
(* One invoke of a method of the class table on a fresh frame, with the    *)
(* argument registers listed in several orders, and with a kind that       *)
(* invoke does not handle.                                                 *)
(***************************************************************************)
ArgsFrame(receiver) ==
    NewFrame([r \in {"v0", "v1", "v2"} |->
                 CASE r = "v0" -> receiver [] r = "v1" -> IntV(0) [] r = "v2" -> IntV(MaxInt)],
             NoTable, NoTable, NoTable)

EnterArgs ==
    /\ initPos = NumDefs
    /\ frames = NoFrames
    /\ \E receiver \in Receivers : frames' = [f \in {1} |-> ArgsFrame(receiver)]
    /\ UNCHANGED <<executors, initPos, hframe, hargs, arrays, objects, procs, stack, last>>

ArgLists ==
    {<<>>, <<"v0">>, <<"v1", "v2">>, <<"v2", "v1">>, <<"v0", "v1", "v2">>,
     <<"v0", "v2", "v1">>, <<"v0", "v0">>}

Kinds == {"static", "direct", "virtual"}

DispatchInvokeArgs ==
    /\ Fresh
    /\ Len(stack) = 0
    /\ \E kind \in Kinds, args \in ArgLists, owner \in Owners, method \in {"m()I", "n()I"} :
           BeginInvoke(1, "invoke-" \o kind, <<kind, args, owner, method>>, 0, 1)

DispatchInvokeOther ==
    /\ Fresh
    /\ Len(stack) = 0
    /\ \E kind \in {"super", "interface"}, args \in ArgLists, owner \in Owners :
           BeginInvoke(1, "invoke", <<kind, args, owner, "m()I">>, 0, 1)

NextArgs ==
    \/ Define
    \/ EnterArgs
    \/ DispatchInvokeArgs
    \/ DispatchInvokeOther
    \/ CalleeStep
    \/ ReturnInvoke

SpecArgs == InitRegistry /\ [][NextArgs]_vars

\* The values that the registers listed by an invoke held, in listed order.
Listed(operands, regs) == [i \in 1..Len(operands[2]) |-> regs[operands[2][i]]]

\* What the call collaborator must have been given by an invoke with these
\* operands dispatched on a frame with these registers.
Passes(operands, regs, call) ==
    /\ operands[1] = "static" =>
           /\ call.instance = Null
           /\ call.values = Listed(operands, regs)
    /\ operands[1] \in {"direct", "virtual"} =>
           /\ Len(operands[2]) >= 1
           /\ call.instance = Listed(operands, regs)[1]
           /\ Len(call.values) = Len(operands[2]) - 1
           /\ \A i \in 1..Len(call.values) : call.values[i] = regs[operands[2][i + 1]]

\* C21: a non-intrinsic invoke reads the argument values from the listed
\* registers in listed order; a static call gives the call collaborator no
\* receiver and all the values, a direct or virtual call the first value as
\* receiver and the remaining values, the receiver not being repeated; an
\* invoke of another kind calls nothing and leaves the frame unchanged.
C21_ArgumentPassing ==
    /\ \A i \in 1..Len(stack) :
           /\ stack[i].operands[1] \in Kinds
           /\ Passes(stack[i].operands, stack[i].pre[stack[i].caller].regs, stack[i].call)
    /\ (Dispatching(InvokeNames) /\ last.called) =>
           /\ last.args[1] \in Kinds
           /\ Passes(last.args, Pre.regs, last.call)
    /\ (Dispatching(InvokeNames) /\ last.args[1] \notin Kinds) =>
           /\ last.fault = ""
           /\ ~last.called
           /\ frames = last.pre

\* A virtual call has been given its receiver and two further values in
\* an order that is not that of the register numbers.
C21_Witness ==
    /\ Dispatching(InvokeNames)
    /\ last.called
    /\ last.args[1] = "virtual"
    /\ last.args[2] = <<"v0", "v2", "v1">>
    /\ last.call.instance = Pre.regs["v0"]
    /\ last.call.values = <<IntV(MaxInt), IntV(0)>>

(***************************************************************************)
(* One new-instance on a fresh frame, for the primitive and wrapper        *)
(* descriptors, for classes of the class table and for other texts.        *)
(***************************************************************************)
IntegerDescriptors ==
    {"I", "S", "B", "J", "Ljava/lang/Integer;", "Ljava/lang/Byte;", "Ljava/lang/Long;",
     "Ljava/lang/Short;"}
FloatDescriptors == {"F", "D"}
StringDescriptors == {"Ljava/lang/String;", "Ljava/lang/Character;", "C"}
BooleanDescriptors == {"Ljava/lang/Boolean;", "Z"}

DefaultDescriptors ==
    IntegerDescriptors \cup FloatDescriptors \cup StringDescriptors \cup BooleanDescriptors

AnyDescriptors ==
    DefaultDescriptors \cup {"Ljava/lang/Long", "Ljava/lang/Boolean", "SB", "LA;", "LZ;"}

DispatchNewInstanceAny ==
    /\ Fresh
    /\ \E register \in {"v1", "v2", "v3"}, descriptor \in AnyDescriptors :
           Dispatch(1, "new-instance", <<register, descriptor>>)

NextDefault ==
    \/ Define
    \/ EnterObject
    \/ DispatchNewInstanceAny

SpecDefault == InitRegistry /\ [][NextDefault]_vars

\* The default value of a primitive or wrapper descriptor.
DefaultOf(descriptor) ==
    CASE descriptor \in IntegerDescriptors -> IntV(0)
      [] descriptor \in FloatDescriptors -> FloatV(0)
      [] descriptor \in StringDescriptors -> StrV("")
      [] descriptor \in BooleanDescriptors -> BoolV(FALSE)

\* C23: new-instance on a primitive or wrapper descriptor (I, S, B, J,
\* Integer, Byte, Long, Short; F, D; String, Character, C; Boolean, Z)
\* stores the descriptor's default value without consulting the class table
\* (so without a failure of get_class) and without allocating an instance.
C23_DefaultValues ==
    Dispatching({"new-instance"}) =>
        LET dest == last.args[1]
            descriptor == last.args[2]
        IN  descriptor \in DefaultDescriptors =>
                /\ last.fault = ""
                /\ Post.regs[dest] = DefaultOf(descriptor)
                /\ objects = last.preobjects

(***************************************************************************)
(* One new-array on a fresh frame that already holds an array: v0 holds    *)
(* the count, v1 the earlier array.                                        *)
(***************************************************************************)
Counts == -1..MaxLen

NewArrayFrame(count) ==
    NewFrame([r \in {"v0", "v1", "v2"} |->
                 CASE r = "v0" -> IntV(count)
                   [] r = "v1" -> ArrV(1)
                   [] OTHER -> Null],
             NoTable, NoTable, NoTable)

EnterNewArray ==
    /\ initPos = NumDefs
    /\ frames = NoFrames
    /\ \E count \in Counts :
           /\ frames' = [f \in {1} |-> NewArrayFrame(count)]
           /\ arrays' = <<[i \in 1..MaxLen |-> IntV(i)]>>
    /\ UNCHANGED <<executors, initPos, hframe, hargs, objects, procs, stack, last>>

ArrayDescriptors ==
    {<<"[", "B">>, <<"[", "S">>, <<"[", "I">>, <<"[", "J">>, <<"[", "F">>, <<"[", "D">>,
     <<"[", "Z">>, <<"[", "C">>, <<"[", "LA;">>, <<"[", "Ljava/lang/String;">>,
     <<"[", "[", "I">>}

DispatchNewArray ==
    /\ Fresh
    /\ \E dest \in {"v0", "v1", "v2"}, count_register \in {"v0", "v1"},
          descriptor \in ArrayDescriptors :
           Dispatch(1, "new-array", <<dest, count_register, descriptor>>)

NextNewArray ==
    \/ Define
    \/ EnterNewArray
    \/ DispatchNewArray

SpecNewArray == InitRegistry /\ [][NextNewArray]_vars

\* The default element of an element descriptor.
ElementDefault(element) ==
    CASE element \in {"B", "S", "I", "J"} -> IntV(0)
      [] element \in {"F", "D"} -> FloatV(0)
      [] OTHER -> Null

\* new-array was dispatched with an integer in the count register.
NewArrayCase ==
    /\ Dispatching({"new-array"})
    /\ Pre.regs[last.args[2]].t = "int"

\* dest holds an array that no earlier reference names, every element of it
\* is the default of the element descriptor, and the earlier arrays are as
\* they were.
Allocated ==
    LET dest == last.args[1]
        element == Join(Tail(last.args[3]))
    IN  /\ last.fault = ""
        /\ Post.regs[dest].t = "arr"
        /\ Post.regs[dest].ref \in DOMAIN arrays \ DOMAIN last.prearrays
        /\ \A r \in DOMAIN Pre.regs \ {dest} : Post.regs[r] # Post.regs[dest]
        /\ \A i \in DOMAIN arrays[Post.regs[dest].ref] :
               arrays[Post.regs[dest].ref][i] = ElementDefault(element)
        /\ \A a \in DOMAIN last.prearrays : arrays[a] = last.prearrays[a]

\* C22: new-array dest, count, descriptor stores in dest a new array whose
\* every element is 0 for the element descriptors B, S, I, J, 0.0 for F, D
\* and Null for every other element descriptor, sharing no storage with an
\* earlier array.  Its length is frame[count] for a count of at least 0 and
\* 0 for a negative count; every register other than dest is unchanged, the
\* count register too unless it is dest.
C22_NewArray ==
    NewArrayCase =>
        LET dest == last.args[1]
            count == Pre.regs[last.args[2]].i
        IN  /\ Allocated
            /\ Len(arrays[Post.regs[dest].ref]) = IF count >= 0 THEN count ELSE 0
            /\ \A r \in DOMAIN Pre.regs \ {dest} : Post.regs[r] = Pre.regs[r]

\* C22 as stated: the length equals frame[count] and the count register is
\* unchanged, whatever the count and whichever register dest is.
C22_AsStated ==
    NewArrayCase =>
        /\ Allocated
        /\ Len(arrays[Post.regs[last.args[1]].ref]) = Pre.regs[last.args[2]].i
        /\ Post.regs[last.args[2]] = Pre.regs[last.args[2]]

\* new-array v0, v0, [I with a positive count: the count register receives
\* the array of that many zeros.
C22_Witness ==
    /\ NewArrayCase
    /\ last.args[1] = last.args[2]
    /\ last.args[3] = <<"[", "I">>
    /\ Pre.regs[last.args[2]].i > 0
    /\ Post.regs[last.args[1]].t = "arr"
    /\ Len(arrays[Post.regs[last.args[1]].ref]) = Pre.regs[last.args[2]].i
====
